---- MODULE Spec2Model ----
(***************************************************************************)
(* Hit Dice Healing: the hit-dice pool, the healing roll, spell-slot       *)
(* recovery and the Short / Long / Full rest procedures of one character.  *)
(*                                                                         *)
(* Every async function of the source is a sequence of steps, one per      *)
(* await: a step runs the synchronous code up to the next await.  A write  *)
(* to the character store is issued in one step and takes effect when the  *)
(* step that follows the await runs; the store applies the writes of one   *)
(* character in the order they were issued (the queue `pending`).          *)
(***************************************************************************)
EXTENDS Integers, Sequences, FiniteSets, TLC

(***************************************************************************)
(* Bounds of the model.                                                    *)
(***************************************************************************)
MaxLevel == 2
MaxHP == 4
MaxSlot == 2
MaxSeverity == 2

Levels == 1..MaxLevel
ConMods == {-2, 1}
ClassNames == {"Wizard", "Homebrew"}
DiceCounts == (-1)..(MaxLevel + 2)
SlotLevels == 1..MaxSlot
Entries == {"e1", "e2"}
\* The id of the k-th item the actor was created with.
ItemId(k) == "i" \o ToString(k)
\* Ids handed to restoreSpellslot: the entries, an id of no item, an item's id.
EntryIds == Entries \cup {"missing", ItemId(1)}
Procs == {1, 2}

Math_max(a, b) == IF a >= b THEN a ELSE b
Math_min(a, b) == IF a <= b THEN a ELSE b

(***************************************************************************)
(* Static configuration: class name -> die size.                           *)
(***************************************************************************)
\* Faulty variant: the bard listed with the d10 classes
CLASS_DIE_TYPES_BardD10 ==
  [ psychic |-> 6, sorcerer |-> 6, witch |-> 6, wizard |-> 6,
    alchemist |-> 8, animist |-> 8, bard |-> 10, cleric |-> 8,
    commander |-> 8, druid |-> 8, gunslinger |-> 8, investigator |-> 8,
    inventor |-> 8, kineticist |-> 8, oracle |-> 8, rogue |-> 8,
    thaumaturge |-> 8,
    champion |-> 10, exemplar |-> 10, fighter |-> 10, guardian |-> 10,
    magus |-> 10, monk |-> 10, ranger |-> 10, summoner |-> 10,
    swashbuckler |-> 10,
    barbarian |-> 12 ]

CLASS_DIE_TYPES ==
  [ psychic |-> 6, sorcerer |-> 6, witch |-> 6, wizard |-> 6,
    alchemist |-> 8, animist |-> 8, bard |-> 8, cleric |-> 8,
    commander |-> 8, druid |-> 8, gunslinger |-> 8, investigator |-> 8,
    inventor |-> 8, kineticist |-> 8, oracle |-> 8, rogue |-> 8,
    thaumaturge |-> 8,
    champion |-> 10, exemplar |-> 10, fighter |-> 10, guardian |-> 10,
    magus |-> 10, monk |-> 10, ranger |-> 10, summoner |-> 10,
    swashbuckler |-> 10,
    barbarian |-> 12 ]

\* String.prototype.toLowerCase on the class names the model uses.
toLowerCase(s) ==
  CASE s = "Wizard" -> "wizard"
    [] s = "Bard" -> "bard"
    [] s = "Fighter" -> "fighter"
    [] s = "Barbarian" -> "barbarian"
    [] s = "Constructor" -> "constructor"
    [] OTHER -> IF s = "Homebrew" THEN "homebrew" ELSE s

VARIABLES
  level,        \* actor.system.details.level.value
  className,    \* actor.class.name ("" when the actor has no class)
  conMod,       \* actor.system.abilities.con.mod
  actorType,    \* actor.type
  hp,           \* actor.system.attributes.hp.value
  hpMax,        \* actor.system.attributes.hp.max
  hdFlag,       \* flag 'hit-dice-healing'.'current': <<>> (unset) or <<n>>
  slots,        \* [entry -> [level -> [value, max]]]
  focus,        \* actor.system.resources.focus: <<>> or <<[value, max]>>
  reagents,     \* ...resources.crafting.infusedReagents: <<>> or <<[value, max]>>
  conds,        \* severity of each condition, 0 = absent
  items,        \* the other items of the actor, in collection order
  crafting,     \* actor.flags.pf2e.dailyCraftingComplete
  storeFails,   \* the character store may reject a write
  overlap,      \* callers start invocations while another is in flight
  pending,      \* owners of the writes issued and not yet applied, oldest first
  hook,         \* the pf2e.restForTheNight handler's invocation
  fr,           \* the invocation of each caller
  spent         \* history: the dice of the spends that succeeded since the
                \* last replenishment

charVars == <<level, className, conMod, actorType, hpMax, storeFails, overlap>>
restVars == <<focus, reagents, conds, items, crafting>>
vars == <<level, className, conMod, actorType, hp, hpMax, hdFlag, slots, focus,
          reagents, conds, items, crafting, storeFails, overlap, pending,
          hook, fr, spent>>

(***************************************************************************)
(* HitDicePool                                                             *)
(***************************************************************************)
\* Faulty variant: the maximum taken one too high
getMaxHitDice_OffByOne == level + 2

getMaxHitDice == level + 1

\* Faulty variant: an unset flag reads as an empty pool
getCurrentHitDice_ZeroWhenUnset == IF hdFlag = <<>> THEN 0 ELSE hdFlag[1]

getCurrentHitDice == IF hdFlag = <<>> THEN getMaxHitDice ELSE hdFlag[1]

\* Faulty variant: the clamp has no lower bound
setCurrentHitDice_NoFloor(value) == Math_min(value, getMaxHitDice)

\* The value setCurrentHitDice hands to setFlag.
setCurrentHitDice(value) == Math_max(0, Math_min(value, getMaxHitDice))

\* The table is an object literal: CLASS_DIE_TYPES[className] also finds the
\* members every object inherits, which are functions and so truthy.
InheritedKeys == {"constructor"}

\* The value getDieType returns for an inherited key: a function, no number.
InheritedMember == 0 - 1

getDieType ==
  LET name == toLowerCase(className)
  IN  IF name # "" /\ name \in DOMAIN CLASS_DIE_TYPES
      THEN CLASS_DIE_TYPES[name]
      ELSE IF name \in InheritedKeys
      THEN InheritedMember
      ELSE 8

\* The number of console.warn calls one getDieType call makes.
DieTypeDiag ==
  LET name == toLowerCase(className)
  IN  IF (name # "" /\ name \in DOMAIN CLASS_DIE_TYPES) \/ name \in InheritedKeys
      THEN 0 ELSE 1

getConModifier == conMod

(***************************************************************************)
(* HealingEngine: pure parts                                               *)
(***************************************************************************)
\* Faulty variant: the modifier counted once, not once per die
calculateRange_ModOnce(diceCount, dieType, mod) ==
  LET totalConMod == mod
      rawMin == diceCount + totalConMod
  IN  [min |-> Math_max(diceCount, rawMin),
       max |-> Math_max(diceCount, (dieType * diceCount) + totalConMod)]

\* Faulty variant: the minimum without its floor of one HP per die
calculateRange_NoFloor(diceCount, dieType, mod) ==
  LET totalConMod == mod * diceCount
  IN  [min |-> diceCount + totalConMod,
       max |-> Math_max(diceCount, (dieType * diceCount) + totalConMod)]

calculateRange(diceCount, dieType, mod) ==
  LET totalConMod == mod * diceCount
      rawMin == diceCount + totalConMod
  IN  [min |-> Math_max(diceCount, rawMin),
       max |-> Math_max(diceCount, (dieType * diceCount) + totalConMod)]

\* A number as a template literal renders it: its sign, then its digits.
Render(k) == IF k < 0 THEN <<"-", -k>> ELSE <<k>>

\* The die type as a template literal renders it: a number, or the source text
\* of the inherited function.
RenderDie(dieType) ==
  IF dieType = InheritedMember
  THEN <<"function", "Object() { [native code] }">>
  ELSE Render(dieType)

\* Faulty variant: the sign is written for every modifier but 0
buildFormula_AlwaysPlus(diceCount, dieType, mod) ==
  LET totalMod == mod * diceCount
  IN  IF totalMod = 0
      THEN Render(diceCount) \o <<"d">> \o RenderDie(dieType)
      ELSE Render(diceCount) \o <<"d">> \o RenderDie(dieType) \o <<"+">> \o Render(totalMod)

\* The formula as the sequence of its tokens.
buildFormula(diceCount, dieType, mod) ==
  LET totalMod == mod * diceCount
  IN  IF totalMod = 0
      THEN Render(diceCount) \o <<"d">> \o RenderDie(dieType)
      ELSE IF totalMod > 0
      THEN Render(diceCount) \o <<"d">> \o RenderDie(dieType) \o <<"+">> \o Render(totalMod)
      ELSE Render(diceCount) \o <<"d">> \o RenderDie(dieType) \o Render(totalMod)

\* The roll engine's reading of NdD[+M|-M].
ParseFormula(f) ==
  [n |-> f[1], d |-> f[3],
   m |-> IF Len(f) = 3 THEN 0
         ELSE IF f[4] = "+" THEN f[5] ELSE 0 - f[5]]

\* Every total the roll engine can return for a formula.
RollTotals(f) ==
  LET q == ParseFormula(f)
  IN  (q.n + q.m)..((q.n * q.d) + q.m)

\* The formula is of the grammar NdD[+M|-M].
Parses(f) == Len(f) \in {3, 5}

\* What the roll engine does with a formula: a total within the dice's range,
\* and for a formula outside its grammar either an error or some total.
RollOutcomes(f) ==
  IF Parses(f)
  THEN {[threw |-> FALSE, total |-> t] : t \in RollTotals(f)}
  ELSE {[threw |-> TRUE, total |-> 0]} \cup
       {[threw |-> FALSE, total |-> t] : t \in 0..MaxHP}

(***************************************************************************)
(* Invocations                                                             *)
(***************************************************************************)
Snapshot ==
  [hp |-> hp, hd |-> getCurrentHitDice, flag |-> hdFlag, slots |-> slots,
   focus |-> focus, reagents |-> reagents, conds |-> conds, items |-> items,
   crafting |-> crafting]

IdleFrame ==
  [op |-> "none", pc |-> "idle", n |-> 0, entry |-> "", current |-> 0,
   formula |-> <<>>, rollTotal |-> 0, healing |-> 0, actualHealing |-> 0,
   newHP |-> 0, retHealing |-> 0, wval |-> 0, wrote |-> FALSE, ret |-> "none", warns |-> 0,
   errs |-> 0, notes |-> <<>>, rolls |-> 0, log |-> <<>>, ev |-> <<>>, msgs |-> <<>>, updates |-> {},
   idx |-> 0, daily |-> FALSE, replenished |-> 0, pre |-> <<>>,
   range |-> <<>>, depleted |-> <<>>, diags |-> 0, die |-> 0]

IdleHook == [pc |-> "idle", wrote |-> FALSE, replenished |-> 0, notes |-> 0]

Resting(p) == fr[p].pc \in {"idle", "done", "failed"}

\* No invocation is in flight and no write is outstanding.
Quiescent ==
  /\ \A q \in Procs : Resting(q)
  /\ hook.pc \in {"idle", "done"}
  /\ pending = <<>>

\* A caller starts an invocation: at any time when callers overlap, else only when
\* nothing is in flight (the one caller is then caller 1).
CanStart(p) == IF overlap THEN Resting(p) ELSE p = 1 /\ Quiescent

NewFrame(op) == [IdleFrame EXCEPT !.op = op, !.pre = Snapshot]

\* The outcomes of one write to the store.
WriteOutcomes == IF storeFails THEN BOOLEAN ELSE {TRUE}

\* The write at the head of the queue is p's.
MyWrite(p) == pending # <<>> /\ Head(pending) = p

\* Faulty variant: the rejection is swallowed and the summary is posted
Fail_Swallowed(f) == [f EXCEPT !.pc = "chat"]

Fail(f) == [f EXCEPT !.pc = "failed", !.ret = "threw"]

(***************************************************************************)
(* HitDicePool.setCurrentHitDice called on the manager the API exposes      *)
(***************************************************************************)
\* setCurrentHitDice(actor, value) up to its await: setFlag is issued.
SetCurrentIssued(p, value) ==
  /\ CanStart(p)
  /\ fr' = [fr EXCEPT ![p] =
       [NewFrame("set") EXCEPT !.pc = "hdWrite", !.n = value,
                               !.wval = setCurrentHitDice(value)]]
  /\ pending' = Append(pending, p)
  /\ UNCHANGED <<charVars, spent, restVars, hp, hdFlag, slots, hook>>

\* setFlag completes and setCurrentHitDice returns.
SetCurrentWritten(p) ==
  /\ fr[p].op = "set" /\ fr[p].pc = "hdWrite" /\ MyWrite(p)
  /\ pending' = Tail(pending)
  /\ \E ok \in WriteOutcomes :
       IF ok
       THEN /\ hdFlag' = <<fr[p].wval>>
            /\ fr' = [fr EXCEPT ![p] =
                 [@ EXCEPT !.pc = "done", !.ret = "void", !.ev = Append(@, "hd")]]
       ELSE /\ fr' = [fr EXCEPT ![p] = Fail(@)]
            /\ UNCHANGED hdFlag
  /\ UNCHANGED <<charVars, spent, restVars, hp, slots, hook>>

(***************************************************************************)
(* HitDiceManager.getCurrentHitDice called on the manager the API exposes,  *)
(* and the host changing the character's level between operations           *)
(***************************************************************************)
\* The value read and the maximum at the time of the read.
getCurrentHitDiceCall(p) ==
  /\ CanStart(p)
  /\ fr' = [fr EXCEPT ![p] =
       [NewFrame("current") EXCEPT !.pc = "done", !.ret = "value",
                                   !.current = getCurrentHitDice,
                                   !.n = getMaxHitDice]]
  /\ UNCHANGED <<charVars, spent, restVars, hp, hdFlag, slots, pending, hook>>

\* The character gains or loses levels; the module has no handler for it and
\* the stored count stays as it is.
LevelChanged ==
  /\ Quiescent
  /\ level' \in Levels \ {level}
  /\ UNCHANGED <<className, conMod, actorType, hpMax, storeFails, overlap, spent,
                 restVars, hp, hdFlag, slots, pending, hook, fr>>

(***************************************************************************)
(* HitDiceManager.getDieType called on the manager the API exposes          *)
(***************************************************************************)
getDieTypeCall(p) ==
  /\ CanStart(p)
  /\ fr' = [fr EXCEPT ![p] =
       [NewFrame("die") EXCEPT !.pc = "done", !.ret = "value",
                               !.die = getDieType, !.diags = DieTypeDiag]]
  /\ UNCHANGED <<charVars, spent, restVars, hp, hdFlag, slots, pending, hook>>

(***************************************************************************)
(* HealingEngine.rollAndHeal                                               *)
(***************************************************************************)
\* Faulty variant: the roll total applied without the floor
FloorHealing_NoFloor(total, diceCount) == total

\* Math.max(roll.total, diceCount)
FloorHealing(total, diceCount) == Math_max(total, diceCount)

\* Faulty variant: the healing applied without the cap
CapHP_NoCap(currentHP, healing, maxHP) == currentHP + healing

\* Faulty variant: Math.max written for Math.min
CapHP_MaxForMin(currentHP, healing, maxHP) == Math_max(currentHP + healing, maxHP)

\* Math.min(currentHP + healing, maxHP)
CapHP(currentHP, healing, maxHP) == Math_min(currentHP + healing, maxHP)

\* Faulty variant: the request is not compared with the pool
RollRejected_NoPoolCheck(diceCount, current) == diceCount < 1

\* Faulty variant: the minimum of one die is not checked
RollRejected_NoMinimum(diceCount, current) == diceCount > current

\* The two validations: the request is refused.
RollRejected(diceCount, current) == diceCount > current \/ diceCount < 1

\* The validation and the call of the roll engine.
rollAndHeal(p, diceCount) ==
  /\ CanStart(p)
  /\ LET current == getCurrentHitDice
         f == [NewFrame("roll") EXCEPT !.n = diceCount, !.current = current]
     IN  fr' = [fr EXCEPT ![p] =
           IF RollRejected(diceCount, current)
           THEN [f EXCEPT !.pc = "done", !.ret = "null", !.warns = 1]
           ELSE [f EXCEPT !.pc = "rolling", !.rolls = 1,
                          !.die = getDieType, !.diags = DieTypeDiag,
                          !.formula = buildFormula(diceCount, getDieType, getConModifier)]]
  /\ UNCHANGED <<charVars, spent, restVars, hp, hdFlag, slots, pending, hook>>

\* The roll resolves: the healing is computed and the HP write issued.
RollResolved(p) ==
  /\ fr[p].op = "roll" /\ fr[p].pc = "rolling"
  /\ \E o \in RollOutcomes(fr[p].formula) :
       IF o.threw
       THEN /\ fr' = [fr EXCEPT ![p] = Fail(@)]
            /\ UNCHANGED pending
       ELSE LET healing == FloorHealing(o.total, fr[p].n)
                newHP == CapHP(hp, healing, hpMax)
            IN  /\ fr' = [fr EXCEPT ![p] =
                     [@ EXCEPT !.pc = "hpWrite", !.rollTotal = o.total,
                               !.healing = healing, !.newHP = newHP,
                               !.actualHealing = newHP - hp]]
                /\ pending' = Append(pending, p)
  /\ UNCHANGED <<charVars, spent, restVars, hp, hdFlag, slots, hook>>

\* The HP write completes; setCurrentHitDice(current - diceCount) is issued.
RollHpWritten(p) ==
  /\ fr[p].op = "roll" /\ fr[p].pc = "hpWrite" /\ MyWrite(p)
  /\ \E ok \in WriteOutcomes :
       IF ok
       THEN /\ hp' = fr[p].newHP
            /\ fr' = [fr EXCEPT ![p] =
                 [@ EXCEPT !.pc = "hdWrite", !.ev = Append(@, "hp"),
                           !.wval = setCurrentHitDice(fr[p].current - fr[p].n)]]
            /\ pending' = Append(Tail(pending), p)
       ELSE /\ fr' = [fr EXCEPT ![p] = Fail(@)]
            /\ pending' = Tail(pending)
            /\ UNCHANGED hp
  /\ UNCHANGED <<charVars, spent, restVars, hdFlag, slots, hook>>

\* Faulty variant: a rejected hit-dice write takes the HP increase back
RollHdWritten_Rollback(p) ==
  /\ fr[p].op = "roll" /\ fr[p].pc = "hdWrite" /\ MyWrite(p)
  /\ pending' = Tail(pending)
  /\ \E ok \in WriteOutcomes :
       IF ok
       THEN /\ hdFlag' = <<fr[p].wval>>
            /\ fr' = [fr EXCEPT ![p] = [@ EXCEPT !.pc = "chat", !.ev = Append(@, "hd")]]
            /\ UNCHANGED hp
       ELSE /\ fr' = [fr EXCEPT ![p] = Fail(@)]
            /\ hp' = fr[p].pre.hp
            /\ UNCHANGED hdFlag
  /\ UNCHANGED <<charVars, spent, restVars, slots, hook>>

\* The hit-dice write completes; sendChatMessage renders its template.
RollHdWritten(p) ==
  /\ fr[p].op = "roll" /\ fr[p].pc = "hdWrite" /\ MyWrite(p)
  /\ pending' = Tail(pending)
  /\ \E ok \in WriteOutcomes :
       IF ok
       THEN /\ hdFlag' = <<fr[p].wval>>
            /\ fr' = [fr EXCEPT ![p] = [@ EXCEPT !.pc = "chat", !.ev = Append(@, "hd")]]
       ELSE /\ fr' = [fr EXCEPT ![p] = Fail(@)]
            /\ UNCHANGED hdFlag
  /\ UNCHANGED <<charVars, spent, restVars, hp, slots, hook>>

\* Faulty variant: the entry reports the healing before the cap
RollLogEntry_ReportsHealing(f) ==
  [kind |-> "roll", diceSpent |-> f.n, dieType |-> getDieType, formula |-> f.formula,
   rollTotal |-> f.rollTotal, healing |-> f.healing,
   remaining |-> f.current - f.n, maxDice |-> getMaxHitDice,
   wasLimited |-> (f.healing > f.actualHealing)]

\* The entry sendChatMessage posts.
RollLogEntry(f) ==
  [kind |-> "roll", diceSpent |-> f.n, dieType |-> getDieType, formula |-> f.formula,
   rollTotal |-> f.rollTotal, healing |-> f.actualHealing,
   remaining |-> f.current - f.n, maxDice |-> getMaxHitDice,
   wasLimited |-> (f.healing > f.actualHealing)]

\* ChatMessage.create, then the return of {roll, healing: actualHealing}.
RollChatSent(p) ==
  /\ fr[p].op = "roll" /\ fr[p].pc = "chat"
  /\ fr' = [fr EXCEPT ![p] =
       [@ EXCEPT !.pc = "done", !.ret = "result", !.ev = Append(@, "chat"),
                 !.retHealing = fr[p].actualHealing,
                 !.diags = @ + DieTypeDiag,
                 !.log = Append(@, RollLogEntry(fr[p]))]]
  /\ spent' = spent + fr[p].n
  /\ UNCHANGED <<charVars, restVars, hp, hdFlag, slots, pending, hook>>

(***************************************************************************)
(* SpellSlotRecovery                                                       *)
(***************************************************************************)
\* entry.system.slots[`slot${level}`] exists.
HasSlot(entryId, slotLevel) == entryId \in Entries /\ slotLevel \in SlotLevels

\* Faulty variant: the records are returned in the order they were pushed
getDepletedSpellslots_Unsorted ==
  LET Depleted(e, l) == slots[e][l].max # 0 /\ slots[e][l].value < slots[e][l].max
      Rec(e, l) == [entryId |-> e, level |-> l, current |-> slots[e][l].value,
                    max |-> slots[e][l].max]
      OfEntry(e) == SelectSeq([l \in SlotLevels |-> Rec(e, l)],
                              LAMBDA r : Depleted(e, r.level))
  IN  OfEntry("e1") \o OfEntry("e2")

\* The depleted slots, by ascending level (entries in collection order).
getDepletedSpellslots ==
  LET Depleted(e, l) == slots[e][l].max # 0 /\ slots[e][l].value < slots[e][l].max
      Rec(e, l) == [entryId |-> e, level |-> l, current |-> slots[e][l].value,
                    max |-> slots[e][l].max]
      OfEntry(e) == SelectSeq([l \in SlotLevels |-> Rec(e, l)],
                              LAMBDA r : Depleted(e, r.level))
      pushed == OfEntry("e1") \o OfEntry("e2")
      AtLevel(l) == SelectSeq(pushed, LAMBDA r : r.level = l)
      Sorted[l \in 0..MaxSlot] == IF l = 0 THEN <<>> ELSE Sorted[l - 1] \o AtLevel(l)
  IN  Sorted[MaxSlot]

\* actor.items.get(entryId) finds an item: a spellcasting entry or another item.
ItemExists(entryId) ==
  entryId \in Entries \/ \E k \in 1..Len(items) : items[k].id = entryId

\* slotData.value + 1
RestoredValue(value) == value + 1

\* Faulty variant: every slot costs one die
hitDiceCost_OneDie(slotLevel) == 1

\* The cost of a slot: its level.
hitDiceCost(slotLevel) == slotLevel

\* Faulty variant: only a missing slot is refused
SlotFull_MissingOnly(entryId, slotLevel) == ~HasSlot(entryId, slotLevel)

\* Faulty variant: > written for >=
SlotFull_OffByOne(entryId, slotLevel) ==
  \/ ~HasSlot(entryId, slotLevel)
  \/ slots[entryId][slotLevel].value > slots[entryId][slotLevel].max

\* !slotData || slotData.value >= slotData.max
SlotFull(entryId, slotLevel) ==
  \/ ~HasSlot(entryId, slotLevel)
  \/ slots[entryId][slotLevel].value >= slots[entryId][slotLevel].max

\* The three validations and the slot write.
restoreSpellslot(p, entryId, slotLevel) ==
  /\ CanStart(p)
  /\ LET current == getCurrentHitDice
         f == [NewFrame("slot") EXCEPT !.n = slotLevel, !.entry = entryId,
                                       !.current = current]
     IN  IF hitDiceCost(slotLevel) > current
         THEN /\ fr' = [fr EXCEPT ![p] =
                   [f EXCEPT !.pc = "done", !.ret = "false", !.warns = 1]]
              /\ UNCHANGED pending
         ELSE IF ~ItemExists(entryId)
         THEN /\ fr' = [fr EXCEPT ![p] =
                   [f EXCEPT !.pc = "done", !.ret = "false", !.errs = 1]]
              /\ UNCHANGED pending
         ELSE IF entryId \notin Entries
         THEN \* an item that is no spellcasting entry: entry.system.slots is
              \* undefined and reading its slot throws a TypeError
              /\ fr' = [fr EXCEPT ![p] = Fail(f)]
              /\ UNCHANGED pending
         ELSE IF SlotFull(entryId, slotLevel)
         THEN /\ fr' = [fr EXCEPT ![p] =
                   [f EXCEPT !.pc = "done", !.ret = "false", !.warns = 1]]
              /\ UNCHANGED pending
         ELSE /\ fr' = [fr EXCEPT ![p] =
                   [f EXCEPT !.pc = "slotWrite",
                             !.wval = RestoredValue(slots[entryId][slotLevel].value)]]
              /\ pending' = Append(pending, p)
  /\ UNCHANGED <<charVars, spent, restVars, hp, hdFlag, slots, hook>>

\* The slot write completes; setCurrentHitDice(current - hitDiceCost) is issued.
SlotWritten(p) ==
  /\ fr[p].op = "slot" /\ fr[p].pc = "slotWrite" /\ MyWrite(p)
  /\ \E ok \in WriteOutcomes :
       IF ok
       THEN /\ slots' = [slots EXCEPT ![fr[p].entry][fr[p].n].value = fr[p].wval]
            /\ fr' = [fr EXCEPT ![p] =
                 [@ EXCEPT !.pc = "hdWrite", !.ev = Append(@, "slot"),
                           !.wval = setCurrentHitDice(
                                      fr[p].current - hitDiceCost(fr[p].n))]]
            /\ pending' = Append(Tail(pending), p)
       ELSE /\ fr' = [fr EXCEPT ![p] = Fail(@)]
            /\ pending' = Tail(pending)
            /\ UNCHANGED slots
  /\ UNCHANGED <<charVars, spent, restVars, hp, hdFlag, hook>>

\* The hit-dice write completes; sendSpellslotChatMessage is called.
SlotHdWritten(p) ==
  /\ fr[p].op = "slot" /\ fr[p].pc = "hdWrite" /\ MyWrite(p)
  /\ pending' = Tail(pending)
  /\ \E ok \in WriteOutcomes :
       IF ok
       THEN /\ hdFlag' = <<fr[p].wval>>
            /\ fr' = [fr EXCEPT ![p] = [@ EXCEPT !.pc = "chat", !.ev = Append(@, "hd")]]
       ELSE /\ fr' = [fr EXCEPT ![p] = Fail(@)]
            /\ UNCHANGED hdFlag
  /\ UNCHANGED <<charVars, spent, restVars, hp, slots, hook>>

\* ChatMessage.create, then return true.
SlotChatSent(p) ==
  /\ fr[p].op = "slot" /\ fr[p].pc = "chat"
  /\ fr' = [fr EXCEPT ![p] =
       [@ EXCEPT !.pc = "done", !.ret = "true", !.ev = Append(@, "chat"),
                 !.log = Append(@, [kind |-> "slot", entry |-> fr[p].entry,
                                    level |-> fr[p].n,
                                    cost |-> hitDiceCost(fr[p].n)])]]
  /\ spent' = spent + fr[p].n
  /\ UNCHANGED <<charVars, restVars, hp, hdFlag, slots, pending, hook>>

(***************************************************************************)
(* HitDiceModal._prepareContext: what the modal displays                    *)
(***************************************************************************)
\* The modal's diceToRoll, clamped to the dice available.
ClampDiceToRoll(diceToRoll, current) ==
  IF diceToRoll > current THEN Math_max(1, current) ELSE diceToRoll

\* _prepareContext: the range, the formula and the depleted slots on display.
prepareContext(p, diceToRoll) ==
  /\ CanStart(p)
  /\ LET current == getCurrentHitDice
         n == ClampDiceToRoll(diceToRoll, current)
     IN  fr' = [fr EXCEPT ![p] =
           [NewFrame("context") EXCEPT
              !.pc = "done", !.ret = "context", !.n = n, !.current = current,
              !.range = <<calculateRange(n, getDieType, getConModifier)>>,
              !.formula = buildFormula(n, getDieType, getConModifier),
              !.depleted = getDepletedSpellslots]]
  /\ UNCHANGED <<charVars, spent, restVars, hp, hdFlag, slots, pending, hook>>

(***************************************************************************)
(* HitDicePool.replenishHitDice and the API's replenish                     *)
(***************************************************************************)
\* Faulty variant: <= written for <: a full pool is written again
ReplenishWrites_WhenFull == getCurrentHitDice <= getMaxHitDice

\* replenishHitDice up to its await: whether it writes, what it will report.
ReplenishWrites == getCurrentHitDice < getMaxHitDice

ReplenishCount == IF ReplenishWrites THEN getMaxHitDice - getCurrentHitDice ELSE 0

\* HitDiceHealing.replenish(actor) of the macro API.
replenish(p, isGM) ==
  /\ CanStart(p)
  /\ LET f == [NewFrame("replenish") EXCEPT !.current = getCurrentHitDice]
     IN  IF ~isGM
         THEN /\ fr' = [fr EXCEPT ![p] =
                   [f EXCEPT !.pc = "done", !.ret = "void", !.warns = 1]]
              /\ UNCHANGED pending
         ELSE /\ fr' = [fr EXCEPT ![p] =
                   [f EXCEPT !.pc = "rpWrite", !.wrote = ReplenishWrites,
                             !.replenished = ReplenishCount,
                             !.wval = setCurrentHitDice(getMaxHitDice)]]
              /\ pending' = IF ReplenishWrites THEN Append(pending, p) ELSE pending
  /\ UNCHANGED <<charVars, spent, restVars, hp, hdFlag, slots, hook>>

\* replenishHitDice returns; the info notification is shown.
ReplenishDone(p) ==
  /\ fr[p].op = "replenish" /\ fr[p].pc = "rpWrite"
  /\ fr[p].wrote => MyWrite(p)
  /\ pending' = IF fr[p].wrote THEN Tail(pending) ELSE pending
  /\ \E ok \in (IF fr[p].wrote THEN WriteOutcomes ELSE {TRUE}) :
       IF ok
       THEN /\ hdFlag' = IF fr[p].wrote THEN <<fr[p].wval>> ELSE hdFlag
            /\ fr' = [fr EXCEPT ![p] =
                 [@ EXCEPT !.pc = "done", !.ret = "void",
                           !.notes = Append(@, [kind |-> "Replenished",
                                                count |-> fr[p].replenished])]]
            /\ spent' = 0
       ELSE /\ fr' = [fr EXCEPT ![p] = Fail(@)]
            /\ UNCHANGED <<hdFlag, spent>>
  /\ UNCHANGED <<charVars, restVars, hp, slots, hook>>

(***************************************************************************)
(* RestController: Long Rest.  Nothing else runs during a Long Rest, so    *)
(* each of its writes is applied in the step that awaits it.               *)
(***************************************************************************)
hasCondition(slug) == conds[slug] > 0

Msg(key) == [key |-> key]

\* Step 1: replenishHitDice and its message.
performLongRest(p) ==
  /\ CanStart(p)
  /\ LET f == [NewFrame("long") EXCEPT !.current = getCurrentHitDice,
                                       !.wrote = ReplenishWrites,
                                       !.replenished = ReplenishCount]
     IN  \E ok \in (IF ReplenishWrites THEN WriteOutcomes ELSE {TRUE}) :
           IF ok
           THEN /\ hdFlag' = IF ReplenishWrites
                             THEN <<setCurrentHitDice(getMaxHitDice)>>
                             ELSE hdFlag
                /\ fr' = [fr EXCEPT ![p] =
                     [f EXCEPT !.pc = "focus",
                               !.ev = IF ReplenishWrites THEN <<"hd">> ELSE <<>>,
                               !.msgs = IF ReplenishCount > 0
                                        THEN <<[key |-> "HitDiceRestored",
                                                count |-> ReplenishCount]>>
                                        ELSE <<Msg("HitDiceAlreadyFull")>>]]
                /\ spent' = 0
           ELSE /\ fr' = [fr EXCEPT ![p] = Fail(f)]
                /\ UNCHANGED <<hdFlag, spent>>
  /\ UNCHANGED <<charVars, restVars, hp, slots, pending, hook>>

\* Step 2: the focus pool goes into the batched updates.
LongFocus(p) ==
  /\ fr[p].op = "long" /\ fr[p].pc = "focus"
  /\ fr' = [fr EXCEPT ![p] =
       IF focus # <<>> /\ focus[1].max > 0
       THEN IF focus[1].value < focus[1].max
            THEN [@ EXCEPT !.pc = "fatigued",
                           !.updates = @ \cup {<<"focus", focus[1].max>>},
                           !.msgs = Append(@, Msg("FocusRestored"))]
            ELSE [@ EXCEPT !.pc = "fatigued",
                           !.msgs = Append(@, Msg("FocusAlreadyFull"))]
       ELSE [@ EXCEPT !.pc = "fatigued"]]
  /\ UNCHANGED <<charVars, spent, restVars, hp, hdFlag, slots, pending, hook>>

\* Faulty variant: every decrease removes the condition
decreaseCondition_Removes(value, forceRemove) == 0

\* actor.decreaseCondition(slug, {forceRemove}): the severity afterwards.
decreaseCondition(value, forceRemove) ==
  IF forceRemove THEN 0 ELSE Math_max(value - 1, 0)

\* Whether _handleRestConditions removes a valued condition outright.
RemovesOutright(value) == value <= 1

\* Step 3a: fatigued is removed.
LongFatigued(p) ==
  /\ fr[p].op = "long" /\ fr[p].pc = "fatigued"
  /\ IF hasCondition("fatigued")
     THEN \E ok \in WriteOutcomes :
            IF ok
            THEN /\ conds' = [conds EXCEPT !.fatigued = decreaseCondition(@, TRUE)]
                 /\ fr' = [fr EXCEPT ![p] =
                      [@ EXCEPT !.pc = "doomed", !.ev = Append(@, "fatigued"),
                                !.msgs = Append(@, [key |-> "ConditionRemoved",
                                                    condition |-> "Fatigued"])]]
            ELSE /\ fr' = [fr EXCEPT ![p] = Fail(@)]
                 /\ UNCHANGED conds
     ELSE /\ fr' = [fr EXCEPT ![p] = [@ EXCEPT !.pc = "doomed"]]
          /\ UNCHANGED conds
  /\ UNCHANGED <<charVars, spent, focus, reagents, items, crafting, hp, hdFlag, slots,
                 pending, hook>>

\* The decay of a valued condition (doomed, drained).
DecayValued(p, slug, name, next) ==
  IF hasCondition(slug)
  THEN \E ok \in WriteOutcomes :
         IF ok
         THEN /\ conds' = [conds EXCEPT ![slug] =
                   decreaseCondition(@, RemovesOutright(conds[slug]))]
              /\ fr' = [fr EXCEPT ![p] =
                   [@ EXCEPT !.pc = next, !.ev = Append(@, slug),
                             !.msgs = Append(@,
                               [key |-> IF RemovesOutright(conds[slug])
                                        THEN "ConditionRemoved"
                                        ELSE "ConditionReduced",
                                condition |-> name])]]
         ELSE /\ fr' = [fr EXCEPT ![p] = Fail(@)]
              /\ UNCHANGED conds
  ELSE /\ fr' = [fr EXCEPT ![p] = [@ EXCEPT !.pc = next]]
       /\ UNCHANGED conds

\* Step 3b: doomed decreases by 1.
LongDoomed(p) ==
  /\ fr[p].op = "long" /\ fr[p].pc = "doomed"
  /\ DecayValued(p, "doomed", "Doomed", "drained")
  /\ UNCHANGED <<charVars, spent, focus, reagents, items, crafting, hp, hdFlag, slots,
                 pending, hook>>

\* Step 3c: drained decreases by 1.
LongDrained(p) ==
  /\ fr[p].op = "long" /\ fr[p].pc = "drained"
  /\ DecayValued(p, "drained", "Drained", "wounded")
  /\ UNCHANGED <<charVars, spent, focus, reagents, items, crafting, hp, hdFlag, slots,
                 pending, hook>>

\* Faulty variant: wounded is cleared whatever the HP
ClearsWounded_Always == TRUE

\* Whether the Long Rest clears wounded.
ClearsWounded == hp >= hpMax

\* Step 3d: wounded is removed only at max HP.
LongWounded(p) ==
  /\ fr[p].op = "long" /\ fr[p].pc = "wounded"
  /\ IF hasCondition("wounded")
     THEN IF ClearsWounded
          THEN \E ok \in WriteOutcomes :
                 IF ok
                 THEN /\ conds' = [conds EXCEPT !.wounded = decreaseCondition(@, TRUE)]
                      /\ fr' = [fr EXCEPT ![p] =
                           [@ EXCEPT !.pc = "wands", !.idx = 1,
                                     !.ev = Append(@, "wounded"),
                                     !.msgs = Append(@, [key |-> "ConditionRemoved",
                                                         condition |-> "Wounded"])]]
                 ELSE /\ fr' = [fr EXCEPT ![p] = Fail(@)]
                      /\ UNCHANGED conds
          ELSE /\ fr' = [fr EXCEPT ![p] =
                    [@ EXCEPT !.pc = "wands", !.idx = 1,
                              !.msgs = Append(@, Msg("WoundsNotHealed"))]]
               /\ UNCHANGED conds
     ELSE /\ fr' = [fr EXCEPT ![p] = [@ EXCEPT !.pc = "wands", !.idx = 1]]
          /\ UNCHANGED conds
  /\ UNCHANGED <<charVars, spent, focus, reagents, items, crafting, hp, hdFlag, slots,
                 pending, hook>>

(***************************************************************************)
(* RestController: _refreshDailyResources                                  *)
(***************************************************************************)
isWand(i) == i.type = "consumable" /\ i.consumableType = "wand"

hasFrequency(i) == i.frequency # <<>>

\* The wand loop resets a wand with a frequency.
WandResets(i) == isWand(i) /\ hasFrequency(i)

\* Faulty variant: the frequency loop passes over everything but wands
FrequencyResets_WandsOnly(i) ==
  /\ isWand(i)
  /\ hasFrequency(i)
  /\ i.frequency[1].per = "day"
  /\ i.frequency[1].value < i.frequency[1].max

\* The frequency loop resets an item.
FrequencyResets(i) ==
  /\ hasFrequency(i)
  /\ i.frequency[1].per = "day"
  /\ i.frequency[1].value < i.frequency[1].max

\* item.update({'system.frequency.value': item.system.frequency.max})
ResetFrequency(i) ==
  [i EXCEPT !.frequency = <<[@[1] EXCEPT !.value = i.frequency[1].max]>>]

\* One pass of a loop over actor.items: the item at idx is reset if `resets`.
RefreshItem(p, resets) ==
  LET i == items[fr[p].idx]
  IN  IF resets
      THEN \E ok \in WriteOutcomes :
             IF ok
             THEN /\ items' = [items EXCEPT ![fr[p].idx] = ResetFrequency(i)]
                  /\ fr' = [fr EXCEPT ![p] =
                       [@ EXCEPT !.idx = @ + 1, !.daily = TRUE,
                                 !.ev = Append(@, "item")]]
             ELSE /\ fr' = [fr EXCEPT ![p] = Fail(@)]
                  /\ UNCHANGED items
      ELSE /\ fr' = [fr EXCEPT ![p] = [@ EXCEPT !.idx = @ + 1]]
           /\ UNCHANGED items

\* Step 4a: one wand of the wand loop.
LongWand(p) ==
  /\ fr[p].op = "long" /\ fr[p].pc = "wands" /\ fr[p].idx <= Len(items)
  /\ RefreshItem(p, WandResets(items[fr[p].idx]))
  /\ UNCHANGED <<charVars, spent, focus, reagents, conds, crafting, hp, hdFlag, slots,
                 pending, hook>>

\* Step 4b: the reagents go into the batched updates; the daily crafting flag
\* is cleared.
LongReagents(p) ==
  /\ fr[p].op = "long" /\ fr[p].pc = "wands" /\ fr[p].idx > Len(items)
  /\ LET restore == reagents # <<>> /\ reagents[1].value < reagents[1].max
         f == IF restore
              THEN [fr[p] EXCEPT !.updates = @ \cup {<<"reagents", reagents[1].max>>},
                                 !.msgs = Append(@, Msg("InfusedReagentsRestored"))]
              ELSE fr[p]
     IN  IF crafting
         THEN \E ok \in WriteOutcomes :
                IF ok
                THEN /\ crafting' = FALSE
                     /\ fr' = [fr EXCEPT ![p] =
                          [f EXCEPT !.pc = "freq", !.idx = 1,
                                    !.ev = Append(@, "crafting")]]
                ELSE /\ fr' = [fr EXCEPT ![p] = Fail(f)]
                     /\ UNCHANGED crafting
         ELSE /\ fr' = [fr EXCEPT ![p] = [f EXCEPT !.pc = "freq", !.idx = 1]]
              /\ UNCHANGED crafting
  /\ UNCHANGED <<charVars, spent, focus, reagents, conds, items, hp, hdFlag, slots,
                 pending, hook>>

\* Step 4c: one item of the frequency loop.
LongFrequency(p) ==
  /\ fr[p].op = "long" /\ fr[p].pc = "freq" /\ fr[p].idx <= Len(items)
  /\ RefreshItem(p, FrequencyResets(items[fr[p].idx]))
  /\ UNCHANGED <<charVars, spent, focus, reagents, conds, crafting, hp, hdFlag, slots,
                 pending, hook>>

\* Faulty variant: no item counts as temporary
isTemporary_Never(i) == FALSE

isTemporary(i) == i.temporary = TRUE

\* Faulty variant: the note on spell slots is left out
ClosingMessages_NoSlots(daily) ==
  (IF daily THEN <<Msg("DailyResourcesReset")>> ELSE <<>>) \o <<Msg("HPUnchanged")>>

\* The closing messages of _refreshDailyResources.
ClosingMessages(daily) ==
  (IF daily THEN <<Msg("DailyResourcesReset")>> ELSE <<>>)
    \o <<Msg("HPUnchanged"), Msg("SpellSlotsUnchanged")>>

\* Step 4d: the temporary items are deleted; the closing messages are pushed.
LongDeleteTemporary(p) ==
  /\ fr[p].op = "long" /\ fr[p].pc = "freq" /\ fr[p].idx > Len(items)
  /\ LET temporaryItems == SelectSeq(items, isTemporary)
     IN  IF Len(temporaryItems) > 0
         THEN \E ok \in WriteOutcomes :
                IF ok
                THEN /\ items' = SelectSeq(items, LAMBDA i : ~isTemporary(i))
                     /\ fr' = [fr EXCEPT ![p] =
                          [@ EXCEPT !.pc = "update", !.ev = Append(@, "delete"),
                                    !.msgs = Append(@, Msg("TemporaryItemsExpired"))
                                               \o ClosingMessages(fr[p].daily)]]
                ELSE /\ fr' = [fr EXCEPT ![p] = Fail(@)]
                     /\ UNCHANGED items
         ELSE /\ fr' = [fr EXCEPT ![p] =
                   [@ EXCEPT !.pc = "update",
                             !.msgs = @ \o ClosingMessages(fr[p].daily)]]
              /\ UNCHANGED items
  /\ UNCHANGED <<charVars, spent, focus, reagents, conds, crafting, hp, hdFlag, slots,
                 pending, hook>>

\* Faulty variant: the batched update never reaches the pools
Updated_Ignored(pool, key, updates) == pool

\* The value the batched update gives a pool: the update's, if it has one.
Updated(pool, key, updates) ==
  IF \E u \in updates : u[1] = key
  THEN <<[pool[1] EXCEPT !.value = (CHOOSE u \in updates : u[1] = key)[2]]>>
  ELSE pool

\* Faulty variant: one actor.update per changed field
LongBatchUpdate_PerField(p) ==
  /\ fr[p].op = "long" /\ fr[p].pc = "update"
  /\ focus' = Updated(focus, "focus", fr[p].updates)
  /\ reagents' = Updated(reagents, "reagents", fr[p].updates)
  /\ fr' = [fr EXCEPT ![p] =
       [@ EXCEPT !.pc = "chat",
                 !.ev = @ \o [k \in 1..Cardinality(fr[p].updates) |-> "update"]]]
  /\ UNCHANGED <<charVars, spent, conds, items, crafting, hp, hdFlag, slots, pending, hook>>

\* The batched actor.update(updates, {render: false}).
LongBatchUpdate(p) ==
  /\ fr[p].op = "long" /\ fr[p].pc = "update"
  /\ IF fr[p].updates # {}
     THEN \E ok \in WriteOutcomes :
            IF ok
            THEN /\ focus' = Updated(focus, "focus", fr[p].updates)
                 /\ reagents' = Updated(reagents, "reagents", fr[p].updates)
                 /\ fr' = [fr EXCEPT ![p] =
                      [@ EXCEPT !.pc = "chat", !.ev = Append(@, "update")]]
            ELSE /\ fr' = [fr EXCEPT ![p] = Fail(@)]
                 /\ UNCHANGED <<focus, reagents>>
     ELSE /\ fr' = [fr EXCEPT ![p] = [@ EXCEPT !.pc = "chat"]]
          /\ UNCHANGED <<focus, reagents>>
  /\ UNCHANGED <<charVars, spent, conds, items, crafting, hp, hdFlag, slots, pending, hook>>

\* Step 5: _sendRestChatMessage(actor, 'long', messages).
LongChat(p) ==
  /\ fr[p].op = "long" /\ fr[p].pc = "chat"
  /\ fr' = [fr EXCEPT ![p] =
       [@ EXCEPT !.pc = "render", !.ev = Append(@, "chat"),
                 !.log = Append(@, [kind |-> "rest", restType |-> "long",
                                    messages |-> fr[p].msgs])]]
  /\ UNCHANGED <<charVars, spent, restVars, hp, hdFlag, slots, pending, hook>>

\* Step 6: the sheet is re-rendered when it is open.
LongRender(p) ==
  /\ fr[p].op = "long" /\ fr[p].pc = "render"
  /\ \E rendered \in BOOLEAN :
       fr' = [fr EXCEPT ![p] =
         [@ EXCEPT !.pc = "done", !.ret = "void",
                   !.ev = IF rendered THEN Append(@, "render") ELSE @]]
  /\ UNCHANGED <<charVars, spent, restVars, hp, hdFlag, slots, pending, hook>>

(***************************************************************************)
(* RestController: Full Rest and the pf2e.restForTheNight hook              *)
(***************************************************************************)
\* Faulty variant: without the host's procedure the Full Rest gives up
performFullRest_RequiresExternal(p) ==
  /\ CanStart(p)
  /\ \E hasRest \in BOOLEAN :
       fr' = [fr EXCEPT ![p] =
         IF hasRest THEN [NewFrame("full") EXCEPT !.pc = "external"]
                    ELSE Fail(NewFrame("full"))]
  /\ UNCHANGED <<charVars, spent, restVars, hp, hdFlag, slots, pending, hook>>

\* performFullRest up to its first await; hasRest: the host offers
\* game.pf2e.actions.restForTheNight.
performFullRest(p) ==
  /\ CanStart(p)
  /\ \E hasRest \in BOOLEAN :
       fr' = [fr EXCEPT ![p] =
         [NewFrame("full") EXCEPT !.pc = IF hasRest THEN "external" ELSE "replenish"]]
  /\ UNCHANGED <<charVars, spent, restVars, hp, hdFlag, slots, pending, hook>>

\* The handler of the hook up to its await: replenishHitDice issues its write.
HookFired ==
  IF actorType # "character"
  THEN [IdleHook EXCEPT !.pc = "done"]
  ELSE [IdleHook EXCEPT !.pc = "await", !.wrote = ReplenishWrites,
                        !.replenished = ReplenishCount]

\* The skipDialog option performFullRest passes to the host's procedure.
skipDialog == TRUE

\* The host's restForTheNight({actors, skipDialog}) runs and returns.  It asks
\* for confirmation unless skipDialog, recovers HP, spell slots and conditions
\* and calls the hook; a stub does nothing.
FullRestExternal(p) ==
  /\ fr[p].op = "full" /\ fr[p].pc = "external"
  /\ \/ /\ fr' = [fr EXCEPT ![p] =
             [@ EXCEPT !.pc = "replenish", !.ev = Append(@, "stub")]]
        /\ UNCHANGED <<hp, slots, conds, hook, pending>>
     \/ /\ fr' = [fr EXCEPT ![p] =
             [@ EXCEPT !.pc = "replenish",
                       !.ev = @ \o (IF skipDialog THEN <<"external">>
                                                  ELSE <<"dialog", "external">>)]]
        /\ hp' \in hp..Math_max(hp, hpMax)
        /\ slots' = [e \in Entries |-> [l \in SlotLevels |->
                       [slots[e][l] EXCEPT !.value = slots[e][l].max]]]
        /\ conds' = [conds EXCEPT !.fatigued = 0,
                                  !.doomed = Math_max(@ - 1, 0),
                                  !.drained = Math_max(@ - 1, 0)]
        /\ hook' = HookFired
        /\ pending' = IF HookFired.wrote THEN Append(pending, 0) ELSE pending
  /\ UNCHANGED <<charVars, spent, focus, reagents, items, crafting, hdFlag>>

\* The hook's replenishHitDice returns; its notification is shown.
HookDone ==
  /\ hook.pc = "await"
  /\ hook.wrote => MyWrite(0)
  /\ pending' = IF hook.wrote THEN Tail(pending) ELSE pending
  /\ \E ok \in (IF hook.wrote THEN WriteOutcomes ELSE {TRUE}) :
       IF ok
       THEN /\ hdFlag' = IF hook.wrote
                         THEN <<setCurrentHitDice(getMaxHitDice)>>
                         ELSE hdFlag
            /\ hook' = [hook EXCEPT !.pc = "done",
                                    !.notes = IF hook.replenished > 0 THEN 1 ELSE 0]
            /\ spent' = 0
       ELSE /\ hook' = [hook EXCEPT !.pc = "done"]
            /\ UNCHANGED <<hdFlag, spent>>
  /\ UNCHANGED <<charVars, restVars, hp, slots, fr>>

\* performFullRest calls replenishHitDice, which issues its write.
FullRestReplenish(p) ==
  /\ fr[p].op = "full" /\ fr[p].pc = "replenish"
  /\ fr' = [fr EXCEPT ![p] =
       [@ EXCEPT !.pc = "hdWrite", !.current = getCurrentHitDice,
                 !.wrote = ReplenishWrites, !.replenished = ReplenishCount,
                 !.wval = setCurrentHitDice(getMaxHitDice),
                 !.ev = Append(@, "replenish")]]
  /\ pending' = IF ReplenishWrites THEN Append(pending, p) ELSE pending
  /\ UNCHANGED <<charVars, spent, restVars, hp, hdFlag, slots, hook>>

\* Faulty variant: the notice is shown whatever was replenished
NoticeShown_Always(replenished) == TRUE

\* if (hdResult.replenished > 0)
NoticeShown(replenished) == replenished > 0

\* replenishHitDice returns; the supplementary notice is shown.
FullRestDone(p) ==
  /\ fr[p].op = "full" /\ fr[p].pc = "hdWrite"
  /\ fr[p].wrote => MyWrite(p)
  /\ pending' = IF fr[p].wrote THEN Tail(pending) ELSE pending
  /\ \E ok \in (IF fr[p].wrote THEN WriteOutcomes ELSE {TRUE}) :
       IF ok
       THEN /\ hdFlag' = IF fr[p].wrote THEN <<fr[p].wval>> ELSE hdFlag
            /\ fr' = [fr EXCEPT ![p] =
                 [@ EXCEPT !.pc = "done", !.ret = "void",
                           !.notes = IF NoticeShown(fr[p].replenished)
                                     THEN Append(@, [kind |-> "HitDiceRestored",
                                                     count |-> fr[p].replenished])
                                     ELSE @]]
            /\ spent' = 0
       ELSE /\ fr' = [fr EXCEPT ![p] = Fail(@)]
            /\ UNCHANGED <<hdFlag, spent>>
  /\ UNCHANGED <<charVars, restVars, hp, slots, hook>>

(***************************************************************************)
(* RestController: Short Rest and the selection                            *)
(***************************************************************************)
\* Faulty variant: opening the modal spends a die
performShortRest_SpendsDie(p) ==
  /\ CanStart(p)
  /\ fr' = [fr EXCEPT ![p] =
       [NewFrame("short") EXCEPT !.pc = "done", !.ret = "void", !.ev = <<"modal">>]]
  /\ hdFlag' = <<setCurrentHitDice(getCurrentHitDice - 1)>>
  /\ UNCHANGED <<charVars, spent, restVars, hp, slots, pending, hook>>

\* performShortRest only opens the hit-dice modal.
performShortRest(p) ==
  /\ CanStart(p)
  /\ fr' = [fr EXCEPT ![p] =
       [NewFrame("short") EXCEPT !.pc = "done", !.ret = "void", !.ev = <<"modal">>]]
  /\ UNCHANGED <<charVars, spent, restVars, hp, hdFlag, slots, pending, hook>>

\* The selection is dismissed: showRestDialog returns.
DismissRestDialog(p) ==
  /\ CanStart(p)
  /\ fr' = [fr EXCEPT ![p] = [NewFrame("dismiss") EXCEPT !.pc = "done", !.ret = "void"]]
  /\ UNCHANGED <<charVars, spent, restVars, hp, hdFlag, slots, pending, hook>>

\* showRestDialog: the tier chosen, or none.
showRestDialog(p) ==
  \/ DismissRestDialog(p)
  \/ performShortRest(p)
  \/ performLongRest(p)
  \/ performFullRest(p)

(***************************************************************************)
(* Initial states                                                          *)
(***************************************************************************)
Slot(value, max) == [value |-> value, max |-> max]

\* Entry e1: level 1 depleted, the higher levels absent (max 0).
\* Entry e2: level 1 full, the higher levels depleted.
InitSlots ==
  [e \in Entries |-> [l \in SlotLevels |->
     IF e = "e1"
     THEN (IF l = 1 THEN Slot(0, 2) ELSE Slot(0, 0))
     ELSE (IF l = 1 THEN Slot(1, 1) ELSE Slot(0, 1))]]

Item(id, type, ctype, freq, temp) ==
  [id |-> id, type |-> type, consumableType |-> ctype, frequency |-> freq,
   temporary |-> temp]

Freq(per, value, max) == <<[per |-> per, value |-> value, max |-> max]>>

\* The shapes of item the model draws from; the id is set by the position.
ItemKinds ==
  { Item("", "consumable", "wand", Freq("day", 0, 1), FALSE),
    Item("", "consumable", "wand", Freq("PT1H", 0, 1), FALSE),
    Item("", "consumable", "wand", <<>>, FALSE),
    Item("", "action", "", Freq("day", 0, 2), FALSE),
    Item("", "action", "", Freq("day", 2, 2), FALSE),
    Item("", "action", "", Freq("PT10M", 0, 1), FALSE),
    Item("", "equipment", "", <<>>, TRUE),
    Item("", "equipment", "", <<>>, FALSE) }

NItems == 2

ItemLists ==
  { [k \in 1..NItems |-> [f[k] EXCEPT !.id = ItemId(k)]] :
      f \in [1..NItems -> ItemKinds] }

NoConds == [fatigued |-> 0, doomed |-> 0, drained |-> 0, wounded |-> 0]

Pools == {<<>>, <<[value |-> 0, max |-> 0]>>, <<[value |-> 0, max |-> 1]>>,
          <<[value |-> 1, max |-> 1]>>}

InitCommon ==
  /\ actorType = "character"
  /\ hpMax = MaxHP
  /\ storeFails = FALSE
  /\ overlap = FALSE
  /\ spent = 0
  /\ pending = <<>>
  /\ hook = IdleHook
  /\ fr = [p \in Procs |-> IdleFrame]

\* A character at 0 HP whose pool was never written and who has nothing a rest
\* would restore but hit dice; spending and resting reach the other states.
Init ==
  /\ InitCommon
  /\ level \in Levels
  /\ className \in ClassNames
  /\ conMod \in ConMods
  /\ hp = 0
  /\ hdFlag = <<>>
  /\ slots = InitSlots
  /\ focus = <<>>
  /\ reagents = <<>>
  /\ conds = NoConds
  /\ items = <<Item(ItemId(1), "equipment", "", <<>>, FALSE)>>
  /\ crafting = FALSE

Next ==
  \/ \E p \in Procs :
       \/ \E n \in DiceCounts : rollAndHeal(p, n)
       \/ RollResolved(p) \/ RollHpWritten(p) \/ RollHdWritten(p) \/ RollChatSent(p)
       \/ \E e \in EntryIds, l \in 0..(MaxSlot + 1) : restoreSpellslot(p, e, l)
       \/ SlotWritten(p) \/ SlotHdWritten(p) \/ SlotChatSent(p)
       \/ \E isGM \in BOOLEAN : replenish(p, isGM)
       \/ ReplenishDone(p)
       \/ showRestDialog(p)
       \/ LongFocus(p) \/ LongFatigued(p) \/ LongDoomed(p) \/ LongDrained(p)
       \/ LongWounded(p) \/ LongWand(p) \/ LongReagents(p) \/ LongFrequency(p)
       \/ LongDeleteTemporary(p) \/ LongBatchUpdate(p) \/ LongChat(p) \/ LongRender(p)
       \/ FullRestExternal(p) \/ FullRestReplenish(p) \/ FullRestDone(p)
  \/ HookDone

Spec == Init /\ [][Next]_vars

\* Characters about to rest: HP below and at max, and either every pool value and
\* combination of conditions, or every focus and reagent pool, or every item list.
InitRest ==
  /\ InitCommon
  /\ level = MaxLevel
  /\ className = "Wizard"
  /\ conMod = 1
  /\ hp \in {MaxHP - 1, MaxHP}
  /\ slots = InitSlots
  /\ \/ /\ hdFlag \in {<<>>} \cup {<<k>> : k \in 0..(MaxLevel + 1)}
        /\ conds \in [fatigued : 0..1, doomed : 0..MaxSeverity,
                       drained : 0..MaxSeverity, wounded : 0..MaxSeverity]
        /\ focus = <<>>
        /\ reagents = <<>>
        /\ items = <<Item(ItemId(1), "equipment", "", <<>>, FALSE)>>
        /\ crafting = FALSE
     \/ /\ hdFlag = <<0>>
        /\ conds = NoConds
        /\ focus \in Pools
        /\ reagents \in Pools
        /\ items = <<Item(ItemId(1), "equipment", "", <<>>, TRUE)>>
        /\ crafting \in BOOLEAN
     \/ /\ hdFlag = <<1>>
        /\ conds = NoConds
        /\ focus = <<>>
        /\ reagents = <<>>
        /\ items \in ItemLists
        /\ crafting \in BOOLEAN

NextRest ==
  \/ \E p \in Procs :
       \/ showRestDialog(p)
       \/ LongFocus(p) \/ LongFatigued(p) \/ LongDoomed(p) \/ LongDrained(p)
       \/ LongWounded(p) \/ LongWand(p) \/ LongReagents(p) \/ LongFrequency(p)
       \/ LongDeleteTemporary(p) \/ LongBatchUpdate(p) \/ LongChat(p) \/ LongRender(p)
       \/ FullRestExternal(p) \/ FullRestReplenish(p) \/ FullRestDone(p)
  \/ HookDone

SpecRest == InitRest /\ [][NextRest]_vars

\* The modal's diceToRoll: 1 at first, raised one at a time up to the pool.
DiceToRoll == 1..(MaxLevel + 2)

\* One class of each die size, and every modifier from -5 to 10.
DisplayClassNames == {"Wizard", "Bard", "Fighter", "Barbarian"}
DisplayConMods == (-5)..10

\* The slot states of a level: absent (max 0), empty, partly spent, full.
SlotStates == {Slot(0, 0), Slot(0, 1), Slot(1, 1), Slot(0, 2), Slot(1, 2), Slot(2, 2)}

\* Characters whose modal is opened: every class size and modifier with the
\* usual slots, or every state of the slots.
InitDisplay ==
  /\ InitCommon
  /\ level \in Levels
  /\ hp = 0
  /\ hdFlag = <<>>
  /\ focus = <<>>
  /\ reagents = <<>>
  /\ conds = NoConds
  /\ items = <<Item(ItemId(1), "equipment", "", <<>>, FALSE)>>
  /\ crafting = FALSE
  /\ \/ /\ className \in DisplayClassNames
        /\ conMod \in DisplayConMods
        /\ slots = InitSlots
     \/ /\ className = "Wizard"
        /\ conMod = 1
        /\ level = MaxLevel
        /\ slots \in [Entries -> [SlotLevels -> SlotStates]]

NextDisplay == \E p \in Procs : \E diceToRoll \in DiceToRoll : prepareContext(p, diceToRoll)

SpecDisplay == InitDisplay /\ [][NextDisplay]_vars

\* The values handed to setCurrentHitDice: below 0, in range, above every max.
SetValues == (-2)..(MaxLevel + 3)

\* Characters of every level whose pool is unset or holds any value in range.
InitPool ==
  /\ InitCommon
  /\ level \in Levels
  /\ className = "Wizard"
  /\ conMod = 1
  /\ hp = 0
  /\ hdFlag \in {<<>>} \cup {<<k>> : k \in 0..(level + 1)}
  /\ slots = InitSlots
  /\ focus = <<>>
  /\ reagents = <<>>
  /\ conds = NoConds
  /\ items = <<Item(ItemId(1), "equipment", "", <<>>, FALSE)>>
  /\ crafting = FALSE

NextPool ==
  \E p \in Procs :
    \/ \E value \in SetValues : SetCurrentIssued(p, value)
    \/ SetCurrentWritten(p)
    \/ \E isGM \in BOOLEAN : replenish(p, isGM)
    \/ ReplenishDone(p)

SpecPool == InitPool /\ [][NextPool]_vars

\* Characters about to take a Long Rest on a store that may reject any write.
InitFail ==
  /\ actorType = "character"
  /\ hpMax = MaxHP
  /\ storeFails = TRUE
  /\ overlap = FALSE
  /\ spent = 0
  /\ pending = <<>>
  /\ hook = IdleHook
  /\ fr = [p \in Procs |-> IdleFrame]
  /\ level = MaxLevel
  /\ className = "Wizard"
  /\ conMod = 1
  /\ hp \in {MaxHP - 1, MaxHP}
  /\ slots = InitSlots
  /\ hdFlag \in {<<>>, <<0>>}
  /\ conds \in [fatigued : 0..1, doomed : {0, MaxSeverity}, drained : 0..1,
                 wounded : 0..1]
  /\ focus \in {<<>>, <<[value |-> 0, max |-> 1]>>}
  /\ reagents = <<[value |-> 0, max |-> 1]>>
  /\ items = <<Item(ItemId(1), "consumable", "wand", Freq("day", 0, 1), FALSE),
               Item(ItemId(2), "action", "", Freq("day", 0, 2), TRUE)>>
  /\ crafting \in BOOLEAN

NextLong ==
  \E p \in Procs :
    \/ performLongRest(p)
    \/ LongFocus(p) \/ LongFatigued(p) \/ LongDoomed(p) \/ LongDrained(p)
    \/ LongWounded(p) \/ LongWand(p) \/ LongReagents(p) \/ LongFrequency(p)
    \/ LongDeleteTemporary(p) \/ LongBatchUpdate(p) \/ LongChat(p) \/ LongRender(p)

SpecFail == InitFail /\ [][NextLong]_vars

\* Characters of a class of the table, of a class outside it, of no class, and
\* of a class whose name is a member every object inherits.
DieClassNames == {"Barbarian", "Homebrew", "", "Constructor"}

InitDie ==
  /\ InitCommon
  /\ level \in Levels
  /\ className \in DieClassNames
  /\ conMod \in ConMods
  /\ hp \in {0, MaxHP - 1}
  /\ hdFlag \in {<<>>, <<1>>}
  /\ slots = InitSlots
  /\ focus = <<>>
  /\ reagents = <<>>
  /\ conds = NoConds
  /\ items = <<Item(ItemId(1), "equipment", "", <<>>, FALSE)>>
  /\ crafting = FALSE

NextDie ==
  \E p \in Procs :
    \/ getDieTypeCall(p)
    \/ \E n \in DiceCounts : rollAndHeal(p, n)
    \/ RollResolved(p) \/ RollHpWritten(p) \/ RollHdWritten(p) \/ RollChatSent(p)

SpecDie == InitDie /\ [][NextDie]_vars

\* Characters about to roll on a store that may reject any write.
InitRollFail ==
  /\ actorType = "character"
  /\ hpMax = MaxHP
  /\ storeFails = TRUE
  /\ overlap = FALSE
  /\ spent = 0
  /\ pending = <<>>
  /\ hook = IdleHook
  /\ fr = [p \in Procs |-> IdleFrame]
  /\ level \in Levels
  /\ className = "Wizard"
  /\ conMod \in ConMods
  /\ hp \in 0..MaxHP
  /\ hdFlag \in {<<>>} \cup {<<k>> : k \in 0..(level + 1)}
  /\ slots = InitSlots
  /\ focus = <<>>
  /\ reagents = <<>>
  /\ conds = NoConds
  /\ items = <<Item(ItemId(1), "equipment", "", <<>>, FALSE)>>
  /\ crafting = FALSE

NextRoll ==
  \E p \in Procs :
    \/ \E n \in DiceCounts : rollAndHeal(p, n)
    \/ RollResolved(p) \/ RollHpWritten(p) \/ RollHdWritten(p) \/ RollChatSent(p)

SpecRollFail == InitRollFail /\ [][NextRoll]_vars

\* Two callers, each spending once, the second free to start while the first
\* is suspended at an await: neither the manager nor the modal's handlers keep
\* a second invocation out.
InitOverlap ==
  /\ actorType = "character"
  /\ hpMax = MaxHP
  /\ storeFails = FALSE
  /\ overlap = TRUE
  /\ spent = 0
  /\ pending = <<>>
  /\ hook = IdleHook
  /\ fr = [p \in Procs |-> IdleFrame]
  /\ level = MaxLevel
  /\ className = "Wizard"
  /\ conMod \in ConMods
  /\ hp \in {0, MaxHP - 1}
  /\ hdFlag \in {<<>>, <<MaxLevel>>}
  /\ slots = InitSlots
  /\ focus = <<>>
  /\ reagents = <<>>
  /\ conds = NoConds
  /\ items = <<Item(ItemId(1), "equipment", "", <<>>, FALSE)>>
  /\ crafting = FALSE

NextOverlap ==
  \E p \in Procs :
    \/ /\ fr[p].pc = "idle"
       /\ \/ \E n \in DiceCounts : rollAndHeal(p, n)
          \/ \E e \in EntryIds, l \in 0..(MaxSlot + 1) : restoreSpellslot(p, e, l)
    \/ RollResolved(p) \/ RollHpWritten(p) \/ RollHdWritten(p) \/ RollChatSent(p)
    \/ SlotWritten(p) \/ SlotHdWritten(p) \/ SlotChatSent(p)

SpecOverlap == InitOverlap /\ [][NextOverlap]_vars

\* The pool read and written through the API while the level changes between
\* the operations.
NextLevel ==
  \/ \E p \in Procs :
       \/ getCurrentHitDiceCall(p)
       \/ \E value \in SetValues : SetCurrentIssued(p, value)
       \/ SetCurrentWritten(p)
       \/ \E isGM \in BOOLEAN : replenish(p, isGM)
       \/ ReplenishDone(p)
  \/ LevelChanged

SpecLevel == InitPool /\ [][NextLevel]_vars

\* Actors about to take a Full Rest: characters and others, the pool unset or
\* stored at any value.
ActorTypes == {"character", "npc"}

InitHook ==
  /\ actorType \in ActorTypes
  /\ hpMax = MaxHP
  /\ storeFails = FALSE
  /\ overlap = FALSE
  /\ spent = 0
  /\ pending = <<>>
  /\ hook = IdleHook
  /\ fr = [p \in Procs |-> IdleFrame]
  /\ level \in Levels
  /\ className = "Wizard"
  /\ conMod = 1
  /\ hp \in {0, MaxHP}
  /\ hdFlag \in {<<>>} \cup {<<k>> : k \in 0..(level + 1)}
  /\ slots = InitSlots
  /\ focus = <<>>
  /\ reagents = <<>>
  /\ conds \in [fatigued : 0..1, doomed : {0}, drained : {0}, wounded : {0}]
  /\ items = <<Item(ItemId(1), "equipment", "", <<>>, FALSE)>>
  /\ crafting = FALSE

NextFull ==
  \/ \E p \in Procs :
       \/ performFullRest(p)
       \/ FullRestExternal(p) \/ FullRestReplenish(p) \/ FullRestDone(p)
  \/ HookDone

SpecHook == InitHook /\ [][NextFull]_vars

\* Characters of every die size and modifier who open the modal and roll.
InitRange ==
  /\ InitCommon
  /\ level \in Levels
  /\ className \in DisplayClassNames
  /\ conMod \in DisplayConMods
  /\ hp = 0
  /\ hdFlag = <<>>
  /\ slots = InitSlots
  /\ focus = <<>>
  /\ reagents = <<>>
  /\ conds = NoConds
  /\ items = <<Item(ItemId(1), "equipment", "", <<>>, FALSE)>>
  /\ crafting = FALSE

NextRange ==
  \E p \in Procs :
    \/ \E diceToRoll \in DiceToRoll : prepareContext(p, diceToRoll)
    \/ \E n \in DiceCounts : rollAndHeal(p, n)
    \/ RollResolved(p) \/ RollHpWritten(p) \/ RollHdWritten(p) \/ RollChatSent(p)

SpecRange == InitRange /\ [][NextRange]_vars

(***************************************************************************)
(* Properties                                                              *)
(***************************************************************************)
RollSucceeded(p) == fr[p].op = "roll" /\ fr[p].pc = "done" /\ fr[p].ret = "result"

SlotSucceeded(p) == fr[p].op = "slot" /\ fr[p].pc = "done" /\ fr[p].ret = "true"

LongRestCompleted(p) == fr[p].op = "long" /\ fr[p].pc = "done"

\* The messages of the summary a Long Rest posted.
Summary(p) == fr[p].log[1].messages

InSeq(x, sq) == \E k \in 1..Len(sq) : sq[k] = x

\* C1: whatever was invoked, succeeding or failing, the hit-dice count read by
\* getCurrentHitDice lies between 0 and level + 1.
C1_PoolWithinBounds == 0 <= getCurrentHitDice /\ getCurrentHitDice <= level + 1

\* A roll that spent the last dice of the pool.
C1_Witness == RollSucceeded(1) /\ fr[1].n > 1 /\ getCurrentHitDice = 0

\* C2: a successful rollAndHeal changes HP by min(max(rollTotal, diceCount),
\* maxHP - currentHP), returns that amount, and takes diceCount dice from the pool.
C2_RollHealsAndSpends ==
  \A p \in Procs :
    RollSucceeded(p) =>
      /\ hp - fr[p].pre.hp =
           Math_min(Math_max(fr[p].rollTotal, fr[p].n), hpMax - fr[p].pre.hp)
      /\ fr[p].retHealing = hp - fr[p].pre.hp
      /\ getCurrentHitDice = fr[p].pre.hd - fr[p].n

\* A roll that healed less than it rolled, and one die short of the whole pool.
C2_Witness ==
  /\ RollSucceeded(1)
  /\ fr[1].n = 2
  /\ fr[1].retHealing > 0
  /\ fr[1].retHealing < fr[1].rollTotal

\* C3: rollAndHeal with diceCount < 1 or diceCount above the pool returns null with
\* one warning, no roll, no log entry, and HP and the pool as they were.
C3_RollRejected ==
  \A p \in Procs :
    (fr[p].op = "roll" /\ (fr[p].n < 1 \/ fr[p].n > fr[p].pre.hd)) =>
      /\ fr[p].pc = "done"
      /\ fr[p].ret = "null"
      /\ fr[p].warns = 1
      /\ fr[p].rolls = 0
      /\ fr[p].log = <<>>
      /\ hp = fr[p].pre.hp
      /\ hdFlag = fr[p].pre.flag

\* A request for no dice is refused while the pool holds dice.
C3_Witness ==
  /\ fr[1].op = "roll" /\ fr[1].n = 0 /\ fr[1].pre.hd > 0
  /\ fr[1].ret = "null"

\* C4 as stated: a successful roll of n dice restores at least n HP.
C4_RestoresAtLeastDice ==
  \A p \in Procs : RollSucceeded(p) => hp - fr[p].pre.hp >= fr[p].n

\* C4, amended: the healing before the cap is at least n, so a successful roll of
\* n dice restores at least n HP or all the HP that was missing.
C4_FloorBeforeCap ==
  \A p \in Procs :
    RollSucceeded(p) =>
      /\ fr[p].healing >= fr[p].n
      /\ hp - fr[p].pre.hp >= Math_min(fr[p].n, hpMax - fr[p].pre.hp)

\* A roll whose total was below the dice spent and that the floor raised.
C4_Witness ==
  /\ RollSucceeded(1)
  /\ fr[1].rollTotal < fr[1].n
  /\ hp - fr[1].pre.hp = fr[1].n

\* C5: HP never exceeds max HP, and what a roll heals lies between 0 and the HP
\* that was missing.
C5_HealingWithinMissing ==
  /\ hp <= hpMax
  /\ \A p \in Procs :
       RollSucceeded(p) =>
         /\ 0 <= fr[p].retHealing
         /\ fr[p].retHealing <= hpMax - fr[p].pre.hp

\* A roll that the cap cut short.
C5_Witness ==
  /\ RollSucceeded(1)
  /\ fr[1].healing > fr[1].retHealing
  /\ fr[1].pre.hp < hpMax
  /\ hp = hpMax

\* C6: a successful restoreSpellslot adds 1 to the slot, takes `level` dice from
\* the pool, leaves the other slots and HP alone, posts one entry, returns true.
C6_RestoreOneSlot ==
  \A p \in Procs :
    SlotSucceeded(p) =>
      /\ slots[fr[p].entry][fr[p].n].value =
           fr[p].pre.slots[fr[p].entry][fr[p].n].value + 1
      /\ getCurrentHitDice = fr[p].pre.hd - fr[p].n
      /\ \A e \in Entries, l \in SlotLevels :
           (e # fr[p].entry \/ l # fr[p].n) => slots[e][l] = fr[p].pre.slots[e][l]
      /\ \A e \in Entries, l \in SlotLevels : slots[e][l].max = fr[p].pre.slots[e][l].max
      /\ hp = fr[p].pre.hp
      /\ Len(fr[p].log) = 1
      /\ fr[p].log[1].kind = "slot"

\* A level-2 slot restored for 2 dice.
C6_Witness == SlotSucceeded(1) /\ fr[1].n = 2 /\ getCurrentHitDice = fr[1].pre.hd - 2

\* The three refusals of restoreSpellslot, on the state the call found.
InsufficientDice(f) == f.n > f.pre.hd
EntryNotFound(f) ==
  f.entry \notin Entries /\ \A k \in 1..Len(f.pre.items) : f.pre.items[k].id # f.entry
SlotWasFull(f) ==
  /\ HasSlot(f.entry, f.n)
  /\ f.pre.slots[f.entry][f.n].value >= f.pre.slots[f.entry][f.n].max

C8_LongRestFrame ==
  \A p \in Procs :
    fr[p].op = "long" =>
      /\ hp = fr[p].pre.hp
      /\ \A e \in Entries, l \in SlotLevels :
           slots[e][l].value = fr[p].pre.slots[e][l].value
      /\ LongRestCompleted(p) =>
           /\ Len(fr[p].log) = 1
           /\ InSeq(Msg("HPUnchanged"), Summary(p))
           /\ InSeq(Msg("SpellSlotsUnchanged"), Summary(p))

\* A Long Rest completed by a wounded character below max HP with depleted slots.
C8_Witness ==
  /\ LongRestCompleted(1)
  /\ hp < hpMax
  /\ fr[1].pre.conds.wounded > 0
  /\ \E e \in Entries, l \in SlotLevels : slots[e][l].value < slots[e][l].max

\* C9: after a Long Rest the pool is at level + 1; the summary reports the dice
\* gained when the pool was below max, and "already full", with no write to the
\* pool, when it was at max.
C9_LongRestReplenishes ==
  \A p \in Procs :
    LongRestCompleted(p) =>
      /\ getCurrentHitDice = level + 1
      /\ fr[p].pre.hd < level + 1 =>
           Summary(p)[1] = [key |-> "HitDiceRestored",
                            count |-> (level + 1) - fr[p].pre.hd]
      /\ fr[p].pre.hd = level + 1 =>
           /\ Summary(p)[1] = Msg("HitDiceAlreadyFull")
           /\ hdFlag = fr[p].pre.flag
           /\ ~InSeq("hd", fr[p].ev)

\* A Long Rest that found the pool empty.
C9_Witness == LongRestCompleted(1) /\ fr[1].pre.hd = 0 /\ getCurrentHitDice = level + 1

\* A Long Rest that found a pool that was never written.
C9_WitnessFull == LongRestCompleted(1) /\ fr[1].pre.flag = <<>> /\ hdFlag = <<>>

\* What a Long Rest leaves of a valued condition, and the message it pushes.
DecayedTo(p, slug, name) ==
  LET v == fr[p].pre.conds[slug]
  IN  /\ (v > 0 /\ v - 1 = 0) =>
           /\ conds[slug] = 0
           /\ InSeq([key |-> "ConditionRemoved", condition |-> name], Summary(p))
      /\ (v > 0 /\ v - 1 > 0) =>
           /\ conds[slug] = v - 1
           /\ InSeq([key |-> "ConditionReduced", condition |-> name], Summary(p))

\* C10: after a Long Rest fatigued is absent; doomed and drained at severity v are
\* removed when v - 1 is 0 and otherwise left at v - 1 and reported reduced; a
\* condition that was absent is still absent.
C10_ConditionDecay ==
  \A p \in Procs :
    LongRestCompleted(p) =>
      /\ conds.fatigued = 0
      /\ DecayedTo(p, "doomed", "Doomed")
      /\ DecayedTo(p, "drained", "Drained")
      /\ \A c \in {"fatigued", "doomed", "drained", "wounded"} :
           fr[p].pre.conds[c] = 0 => conds[c] = 0

\* A Long Rest of a fatigued character that took doomed 2 to doomed 1 and
\* removed drained 1.
C10_Witness ==
  /\ LongRestCompleted(1)
  /\ fr[1].pre.conds.fatigued = 1
  /\ fr[1].pre.conds.doomed = 2 /\ conds.doomed = 1
  /\ fr[1].pre.conds.drained = 1 /\ conds.drained = 0

\* C11: a Long Rest removes wounded exactly when it was present and HP was at or
\* above max HP; wounded below max HP keeps its severity and the summary says the
\* wounds are not healed.
C11_WoundedOnlyAtMaxHP ==
  \A p \in Procs :
    LongRestCompleted(p) =>
      LET was == fr[p].pre.conds.wounded
          removed == [key |-> "ConditionRemoved", condition |-> "Wounded"]
      IN  /\ (was > 0 /\ fr[p].pre.hp >= hpMax) =>
               /\ conds.wounded = 0
               /\ InSeq(removed, Summary(p))
               /\ ~InSeq(Msg("WoundsNotHealed"), Summary(p))
          /\ (was > 0 /\ fr[p].pre.hp < hpMax) =>
               /\ conds.wounded = was
               /\ InSeq(Msg("WoundsNotHealed"), Summary(p))
               /\ ~InSeq(removed, Summary(p))
          /\ was = 0 =>
               /\ conds.wounded = 0
               /\ ~InSeq(removed, Summary(p))
               /\ ~InSeq(Msg("WoundsNotHealed"), Summary(p))

\* A Long Rest below max HP that left wounded 2 in place.
C11_Witness ==
  /\ LongRestCompleted(1)
  /\ fr[1].pre.conds.wounded = MaxSeverity
  /\ hp < hpMax
  /\ conds.wounded = MaxSeverity
  /\ InSeq(Msg("WoundsNotHealed"), Summary(1))

\* A Long Rest at max HP that removed wounded 2 outright.
C11_WitnessRemoved ==
  /\ LongRestCompleted(1)
  /\ fr[1].pre.conds.wounded = MaxSeverity
  /\ hp = hpMax
  /\ conds.wounded = 0

\* The item of a list with a given id, as a sequence of at most one item.
ItemWithId(list, id) == SelectSeq(list, LAMBDA i : i.id = id)

\* C12: after a Long Rest every item with a per-day frequency, wands included,
\* has that frequency's value at its max, and the max is what it was.
C12_DailyChargesAtMax ==
  \A p \in Procs :
    LongRestCompleted(p) =>
      \A k \in 1..Len(items) :
        (hasFrequency(items[k]) /\ items[k].frequency[1].per = "day") =>
          /\ items[k].frequency[1].value = items[k].frequency[1].max
          /\ items[k].frequency[1].max =
               ItemWithId(fr[p].pre.items, items[k].id)[1].frequency[1].max

\* A Long Rest that recharged a spent per-day wand and a spent per-day action.
C12_Witness ==
  /\ LongRestCompleted(1)
  /\ Len(items) = 2
  /\ isWand(items[1]) /\ ~isWand(items[2])
  /\ \A k \in 1..2 :
       /\ hasFrequency(fr[1].pre.items[k])
       /\ fr[1].pre.items[k].frequency[1].per = "day"
       /\ fr[1].pre.items[k].frequency[1].value = 0
       /\ items[k].frequency[1].value = items[k].frequency[1].max

\* What a Long Rest makes of a pool: at max if it existed below max, else as it was.
PoolRestored(before, after) ==
  IF before # <<>> /\ before[1].value < before[1].max
  THEN after = <<[before[1] EXCEPT !.value = before[1].max]>>
  ELSE after = before

\* C13: after a Long Rest the focus pool and the infused-reagent pool are at max
\* if they existed below max, and are as they were if absent or already at max.
C13_PoolsRestored ==
  \A p \in Procs :
    LongRestCompleted(p) =>
      /\ PoolRestored(fr[p].pre.focus, focus)
      /\ PoolRestored(fr[p].pre.reagents, reagents)

\* A Long Rest that refilled an empty focus pool and left an absent reagent pool
\* absent.
C13_Witness ==
  /\ LongRestCompleted(1)
  /\ fr[1].pre.focus = <<[value |-> 0, max |-> 1]>>
  /\ focus = <<[value |-> 1, max |-> 1]>>
  /\ fr[1].pre.reagents = <<>> /\ reagents = <<>>

\* A Long Rest that refilled the reagents and left a full focus pool as it was.
C13_WitnessReagents ==
  /\ LongRestCompleted(1)
  /\ fr[1].pre.reagents = <<[value |-> 0, max |-> 1]>>
  /\ reagents = <<[value |-> 1, max |-> 1]>>
  /\ fr[1].pre.focus = <<[value |-> 1, max |-> 1]>> /\ focus = fr[1].pre.focus

\* C14: after a Long Rest no temporary item is left, every item that was not
\* temporary is still there, and the daily-crafting marker is not set.
C14_TemporaryItemsDeleted ==
  \A p \in Procs :
    LongRestCompleted(p) =>
      /\ \A k \in 1..Len(items) : items[k].temporary = FALSE
      /\ \A k \in 1..Len(fr[p].pre.items) :
           fr[p].pre.items[k].temporary = FALSE =>
             Len(ItemWithId(items, fr[p].pre.items[k].id)) = 1
      /\ crafting = FALSE

\* A Long Rest that deleted one of two items and cleared the marker.
C14_Witness ==
  /\ LongRestCompleted(1)
  /\ Len(fr[1].pre.items) = 2
  /\ fr[1].pre.items[1].temporary = TRUE
  /\ fr[1].pre.items[2].temporary = FALSE
  /\ fr[1].pre.crafting = TRUE
  /\ Len(items) = 1 /\ items[1].id = ItemId(2)
  /\ crafting = FALSE

\* How often an event occurs in a trace, and whether every a precedes every b.
Count(x, sq) == Cardinality({k \in 1..Len(sq) : sq[k] = x})
Precedes(a, b, sq) ==
  \A i, j \in 1..Len(sq) : (sq[i] = a /\ sq[j] = b) => i < j

FullRestCompleted(p) == fr[p].op = "full" /\ fr[p].pc = "done"

\* C16: a Full Rest calls the host's procedure without its dialog, replenishes
\* the pool only after that procedure has returned, leaves the pool at max, and
\* shows its notice exactly when the count it replenished is above 0.
C16_FullRestOrder ==
  \A p \in Procs :
    fr[p].op = "full" =>
      /\ ~InSeq("dialog", fr[p].ev)
      /\ fr[p].pc = "external" => fr[p].ev = <<>>
      /\ ~InSeq("replenish", fr[p].ev) =>
           /\ fr[p].wrote = FALSE
           /\ ~InSeq(p, pending)
      /\ Precedes("external", "replenish", fr[p].ev)
      /\ Precedes("stub", "replenish", fr[p].ev)
      /\ FullRestCompleted(p) =>
           /\ InSeq("replenish", fr[p].ev)
           /\ getCurrentHitDice = level + 1
           /\ fr[p].replenished = (level + 1) - fr[p].current
           /\ Len(fr[p].notes) = (IF fr[p].replenished > 0 THEN 1 ELSE 0)

\* A Full Rest through the host's procedure that then replenished dice and said so.
C16_Witness ==
  /\ FullRestCompleted(1)
  /\ fr[1].ev = <<"external", "replenish">>
  /\ fr[1].replenished > 0
  /\ fr[1].notes = <<[kind |-> "HitDiceRestored", count |-> fr[1].replenished]>>

\* A Full Rest that found the pool full and showed no notice.
C16_WitnessSilent ==
  /\ FullRestCompleted(1)
  /\ InSeq("external", fr[1].ev)
  /\ fr[1].replenished = 0
  /\ fr[1].notes = <<>>

\* C17: a Full Rest without the host's procedure, or with a stub in its place,
\* does not fail and leaves HP, spell slots and conditions as they were; when it
\* has completed the pool is at max.
C17_FullRestDegrades ==
  \A p \in Procs :
    (fr[p].op = "full" /\ ~InSeq("external", fr[p].ev)) =>
      /\ fr[p].pc # "failed"
      /\ hp = fr[p].pre.hp
      /\ slots = fr[p].pre.slots
      /\ conds = fr[p].pre.conds
      /\ FullRestCompleted(p) =>
           /\ fr[p].ret = "void"
           /\ getCurrentHitDice = level + 1

\* A Full Rest without the host's procedure, below max HP with dice spent: the
\* dice are back and HP is where it was.
C17_Witness ==
  /\ FullRestCompleted(1)
  /\ fr[1].ev = <<"replenish">>
  /\ fr[1].pre.hd < level + 1
  /\ fr[1].pre.hp < hpMax /\ hp = fr[1].pre.hp
  /\ getCurrentHitDice = level + 1

\* The same with a stub in place of the host's procedure.
C17_WitnessStub ==
  /\ FullRestCompleted(1)
  /\ fr[1].ev = <<"stub", "replenish">>
  /\ fr[1].pre.hd < level + 1
  /\ fr[1].pre.hp < hpMax /\ hp = fr[1].pre.hp
  /\ getCurrentHitDice = level + 1

\* The writes a Long Rest makes when none fails, in their order, from the state s
\* it started in.
Rep(n, x) == [k \in 1..n |-> x]
Restorable(pool) == pool # <<>> /\ pool[1].value < pool[1].max
ExpectedWrites(s) ==
  (IF s.hd < level + 1 THEN <<"hd">> ELSE <<>>)
  \o (IF s.conds.fatigued > 0 THEN <<"fatigued">> ELSE <<>>)
  \o (IF s.conds.doomed > 0 THEN <<"doomed">> ELSE <<>>)
  \o (IF s.conds.drained > 0 THEN <<"drained">> ELSE <<>>)
  \o (IF s.conds.wounded > 0 /\ s.hp >= hpMax THEN <<"wounded">> ELSE <<>>)
  \o Rep(Len(SelectSeq(s.items, WandResets)), "item")
  \o (IF s.crafting THEN <<"crafting">> ELSE <<>>)
  \o Rep(Len(SelectSeq(s.items, LAMBDA i : FrequencyResets(i) /\ ~WandResets(i))),
          "item")
  \o (IF \E k \in 1..Len(s.items) : s.items[k].temporary THEN <<"delete">> ELSE <<>>)
  \o (IF Restorable(s.reagents) \/ (Restorable(s.focus) /\ s.focus[1].max > 0)
      THEN <<"update">> ELSE <<>>)

IsPrefix(a, b) == Len(a) <= Len(b) /\ SubSeq(b, 1, Len(a)) = a

\* The store shows the writes of a trace and no others.
StoreShows(ev, s) ==
  /\ IF InSeq("hd", ev) THEN hdFlag = <<level + 1>> ELSE hdFlag = s.flag
  /\ conds.fatigued = (IF InSeq("fatigued", ev) THEN 0 ELSE s.conds.fatigued)
  /\ conds.doomed = (IF InSeq("doomed", ev) THEN s.conds.doomed - 1 ELSE s.conds.doomed)
  /\ conds.drained = (IF InSeq("drained", ev) THEN s.conds.drained - 1
                                              ELSE s.conds.drained)
  /\ conds.wounded = (IF InSeq("wounded", ev) THEN 0 ELSE s.conds.wounded)
  /\ crafting = (IF InSeq("crafting", ev) THEN FALSE ELSE s.crafting)
  /\ IF InSeq("delete", ev)
     THEN \A k \in 1..Len(items) : ~items[k].temporary
     ELSE /\ Len(items) = Len(s.items)
          /\ \A k \in 1..Len(items) :
               \/ items[k] = s.items[k]
               \/ hasFrequency(s.items[k]) /\ items[k] = ResetFrequency(s.items[k])
          /\ Cardinality({k \in 1..Len(items) : items[k] # s.items[k]})
               <= Count("item", ev)
  /\ IF InSeq("update", ev)
     THEN PoolRestored(s.focus, focus) /\ PoolRestored(s.reagents, reagents)
     ELSE focus = s.focus /\ reagents = s.reagents

\* C18: a Long Rest that a rejected write ended has made, in order, the writes
\* before the rejected one and none after it, has posted no summary, and the
\* writes it made are still in the store; a Long Rest that posted its summary
\* made every write.
C18_FailureAbortsWithoutRollback ==
  \A p \in Procs :
    fr[p].op = "long" =>
      /\ fr[p].pc = "failed" =>
           /\ IsPrefix(fr[p].ev, ExpectedWrites(fr[p].pre))
           /\ Len(fr[p].ev) < Len(ExpectedWrites(fr[p].pre))
           /\ fr[p].log = <<>>
           /\ StoreShows(fr[p].ev, fr[p].pre)
      /\ fr[p].log # <<>> =>
           /\ IsPrefix(ExpectedWrites(fr[p].pre), fr[p].ev)
           /\ StoreShows(fr[p].ev, fr[p].pre)

\* A Long Rest that restored the dice and removed fatigued, and that the rejected
\* write on doomed ended: the dice and fatigued stay as written, doomed is as it
\* was, nothing was posted.
C18_Witness ==
  /\ fr[1].op = "long" /\ fr[1].pc = "failed"
  /\ fr[1].ev = <<"hd", "fatigued">>
  /\ fr[1].pre.hd = 0 /\ getCurrentHitDice = level + 1
  /\ fr[1].pre.conds.fatigued = 1 /\ conds.fatigued = 0
  /\ conds.doomed = MaxSeverity
  /\ fr[1].log = <<>>

\* A Long Rest that the rejected batched update ended, after every other write.
C18_WitnessLastWrite ==
  /\ fr[1].op = "long" /\ fr[1].pc = "failed"
  /\ InSeq("delete", fr[1].ev)
  /\ reagents = fr[1].pre.reagents
  /\ fr[1].log = <<>>

\* C19: the entry of a rollAndHeal is posted after the HP write and the hit-dice
\* write have completed; it reports the total rolled, the HP gained and the pool
\* value in the store; wasLimited is max(rollTotal, diceCount) > HP gained.
C19_LogAfterWrites ==
  \A p \in Procs :
    (fr[p].op = "roll" /\ fr[p].log # <<>>) =>
      LET e == fr[p].log[1]
      IN  /\ Len(fr[p].log) = 1
          /\ fr[p].ev = <<"hp", "hd", "chat">>
          /\ e.rollTotal = fr[p].rollTotal
          /\ e.rollTotal \in RollTotals(e.formula)
          /\ e.healing = hp - fr[p].pre.hp
          /\ hdFlag = <<e.remaining>>
          /\ e.wasLimited = (Math_max(e.rollTotal, fr[p].n) > e.healing)

\* The entry of a roll that spent the last dice and that the cap limited.
C19_Witness ==
  /\ RollSucceeded(1)
  /\ fr[1].log[1].wasLimited
  /\ fr[1].log[1].healing > 0
  /\ fr[1].log[1].healing < fr[1].log[1].rollTotal
  /\ fr[1].log[1].remaining = 0

\* An entry of a roll that the cap did not limit.
C19_WitnessUnlimited ==
  /\ RollSucceeded(1)
  /\ ~fr[1].log[1].wasLimited
  /\ fr[1].log[1].healing = fr[1].n
  /\ fr[1].log[1].rollTotal < fr[1].n

\* C20: setCurrentHitDice is refused for no integer and stores 0 for a value
\* below 0, level + 1 for a value above it, and the value itself otherwise.
C20_SetCurrentClamps ==
  \A p \in Procs :
    fr[p].op = "set" =>
      /\ fr[p].pc \in {"hdWrite", "done"}
      /\ fr[p].warns = 0 /\ fr[p].errs = 0
      /\ fr[p].pc = "done" =>
           /\ fr[p].ret = "void"
           /\ hdFlag = <<IF fr[p].n < 0 THEN 0
                         ELSE IF fr[p].n > level + 1 THEN level + 1
                         ELSE fr[p].n>>

\* A negative value stored as 0 over a pool that held dice.
C20_Witness ==
  /\ fr[1].op = "set" /\ fr[1].pc = "done"
  /\ fr[1].n < 0
  /\ fr[1].pre.hd > 0
  /\ hdFlag = <<0>>

\* A value above the max stored as the max over an empty pool.
C20_WitnessAbove ==
  /\ fr[1].op = "set" /\ fr[1].pc = "done"
  /\ fr[1].n > level + 1
  /\ fr[1].pre.hd = 0
  /\ hdFlag = <<level + 1>>

\* A value in range stored as it is.
C20_WitnessInRange ==
  /\ fr[1].op = "set" /\ fr[1].pc = "done"
  /\ fr[1].n = 1 /\ fr[1].pre.flag = <<>>
  /\ hdFlag = <<1>>

\* C21: an unset flag reads as level + 1; an invocation that found the flag unset
\* leaves it unset when it is refused, when it fails, and when it only
\* replenishes (the pool then reads as full), and sets it by the hit-dice write
\* of a spend.
C21_LazyCreation ==
  /\ hdFlag = <<>> => getCurrentHitDice = level + 1
  /\ \A p \in Procs :
       (fr[p].op # "none" /\ fr[p].pre.flag = <<>>) =>
         /\ fr[p].pre.hd = level + 1
         /\ fr[p].ret \in {"null", "false", "threw"} => hdFlag = <<>>
         /\ fr[p].op \in {"replenish", "long", "full", "short", "dismiss"} =>
              hdFlag = <<>>
         /\ fr[p].op \in {"roll", "slot"} =>
              (hdFlag # <<>>) = InSeq("hd", fr[p].ev)

\* The first roll of a character: its hit-dice write created the flag.
C21_Witness ==
  /\ RollSucceeded(1)
  /\ fr[1].pre.flag = <<>>
  /\ hdFlag = <<level + 1 - fr[1].n>>

\* A replenish by the GM on a pool never written: the flag is still unset.
C21_WitnessReplenish ==
  /\ fr[1].op = "replenish" /\ fr[1].pc = "done" /\ Len(fr[1].notes) = 1
  /\ hdFlag = <<>>

\* A refused roll on a pool never written: the flag is still unset.
C21_WitnessRefused ==
  /\ fr[1].op = "roll" /\ fr[1].ret = "null"
  /\ hdFlag = <<>>

ContextShown(p) == fr[p].op = "context" /\ fr[p].pc = "done"

\* C22: for every n >= 1, every die size and every modifier from -5 to 10 the
\* range has min <= max, min >= n and max >= n.
C22_RangeOrdered ==
  \A p \in Procs :
    ContextShown(p) =>
      LET r == fr[p].range[1]
      IN  /\ fr[p].n >= 1
          /\ r.min <= r.max
          /\ r.min >= fr[p].n
          /\ r.max >= fr[p].n

\* A range under modifier -5 with 3 d6: both bounds rest on the floor of 3.
C22_Witness ==
  /\ ContextShown(1)
  /\ fr[1].n = 3 /\ conMod = -5 /\ getDieType = 6
  /\ fr[1].range = <<[min |-> 3, max |-> 3]>>

\* A range under modifier 10 with 2 d12.
C22_WitnessPositive ==
  /\ ContextShown(1)
  /\ fr[1].n = 2 /\ conMod = 10 /\ getDieType = 12
  /\ fr[1].range = <<[min |-> 22, max |-> 44]>>

\* The text of a formula: its tokens, numbers in decimal, one after the other.
TokenText(f, k) == IF k \in {2, 4} THEN f[k] ELSE ToString(f[k])
FormulaText(f) ==
  LET Text[k \in 0..Len(f)] == IF k = 0 THEN "" ELSE Text[k - 1] \o TokenText(f, k)
  IN  Text[Len(f)]

\* C23: with M = c * n the formula reads NdD when M = 0, NdD+M when M > 0 and
\* NdD-|M| when M < 0; the roll engine reads n, d and M back from it.
C23_FormulaForm ==
  \A p \in Procs :
    ContextShown(p) =>
      LET n == fr[p].n
          d == getDieType
          M == conMod * n
          text == FormulaText(fr[p].formula)
          NdD == ToString(n) \o "d" \o ToString(d)
      IN  /\ M = 0 => text = NdD
          /\ M > 0 => text = NdD \o "+" \o ToString(M)
          /\ M < 0 => text = NdD \o "-" \o ToString(0 - M)
          /\ ParseFormula(fr[p].formula) = [n |-> n, d |-> d, m |-> M]
          /\ (n = 3 /\ d = 8 /\ conMod = 2) => text = "3d8+6"
          /\ (n = 2 /\ d = 6 /\ conMod = -1) => text = "2d6-2"
          /\ (n = 1 /\ d = 10 /\ conMod = 0) => text = "1d10"

\* The formula of 2 d6 under modifier -1.
C23_Witness ==
  /\ ContextShown(1)
  /\ fr[1].n = 2 /\ getDieType = 6 /\ conMod = -1
  /\ FormulaText(fr[1].formula) = "2d6-2"

\* The formulas of 3 d8 under modifier 2 and of 1 d10 under modifier 0.
C23_WitnessPlus ==
  /\ ContextShown(1)
  /\ fr[1].n = 3 /\ getDieType = 8 /\ conMod = 2
  /\ FormulaText(fr[1].formula) = "3d8+6"

C23_WitnessNoModifier ==
  /\ ContextShown(1)
  /\ fr[1].n = 1 /\ getDieType = 10 /\ conMod = 0
  /\ FormulaText(fr[1].formula) = "1d10"

\* The positions of the records of the list for entry e at level l.
RecordsOf(list, e, l) ==
  {k \in 1..Len(list) : list[k].entryId = e /\ list[k].level = l}

\* C24: the list of depleted slots holds exactly one record for every entry
\* and level with max > 0 and current < max, no record for any other slot, and
\* the levels of its records never decrease.
C24_DepletedSlots ==
  \A p \in Procs :
    ContextShown(p) =>
      LET list == fr[p].depleted
      IN  /\ \A e \in Entries : \A l \in SlotLevels :
               Cardinality(RecordsOf(list, e, l)) =
                 IF slots[e][l].max > 0 /\ slots[e][l].value < slots[e][l].max
                 THEN 1 ELSE 0
          /\ \A k \in 1..Len(list) :
               /\ list[k].entryId \in Entries
               /\ list[k].level \in SlotLevels
               /\ list[k].current = slots[list[k].entryId][list[k].level].value
               /\ list[k].max = slots[list[k].entryId][list[k].level].max
          /\ \A j, k \in 1..Len(list) : j < k => list[j].level <= list[k].level

\* The first entry is depleted at a higher level than the second one, a full
\* slot and a slot of max 0 are left out.
C24_Witness ==
  /\ ContextShown(1)
  /\ slots["e1"][1] = Slot(1, 1) /\ slots["e1"][MaxSlot] = Slot(0, 2)
  /\ slots["e2"][1] = Slot(1, 2) /\ slots["e2"][MaxSlot] = Slot(0, 0)
  /\ Len(fr[1].depleted) = 2
  /\ fr[1].depleted[1].entryId = "e2"

\* The number of classes the table maps to die size d.
ClassesAt(d) == Cardinality({c \in DOMAIN CLASS_DIE_TYPES : CLASS_DIE_TYPES[c] = d})

\* C25 as stated: the table maps 4 classes to 6, 14 to 8, 9 to 10 and 1 to 12.
C25_FourteenAtD8 ==
  /\ getDieType \in {6, 8, 10, 12}
  /\ ClassesAt(6) = 4
  /\ ClassesAt(8) = 14
  /\ ClassesAt(10) = 9
  /\ ClassesAt(12) = 1

\* C25, amended: the table maps exactly 4 classes to 6, 13 classes to 8,
\* 9 classes to 10 and 1 class to 12, and the die of a listed class is the
\* table's.
C25_TableCounts ==
  /\ ClassesAt(6) = 4
  /\ ClassesAt(8) = 13
  /\ ClassesAt(10) = 9
  /\ ClassesAt(12) = 1
  /\ Cardinality(DOMAIN CLASS_DIE_TYPES) = 27
  /\ \A p \in Procs :
       ContextShown(p) =>
         /\ className = "Wizard" => fr[p].formula[3] = 6
         /\ className = "Bard" => fr[p].formula[3] = 8
         /\ className = "Fighter" => fr[p].formula[3] = 10
         /\ className = "Barbarian" => fr[p].formula[3] = 12

\* A bard's dice are shown as d8.
C25_Witness ==
  /\ ContextShown(1)
  /\ className = "Bard"
  /\ fr[1].formula[3] = 8
  /\ ClassesAt(8) = 13

\* The class name is a key of the class table.
KnownClass == toLowerCase(className) \in DOMAIN CLASS_DIE_TYPES

\* C26: getDieType returns a value in {6,8,10,12}: the table's for a known
\* class name, and 8 with one diagnostic and no error for an unknown or missing
\* one, after which rollAndHeal proceeds with d8 and does not fail.
C26_DieTypeValid ==
  \A p \in Procs :
    /\ (fr[p].op = "die" /\ fr[p].pc = "done") =>
         /\ fr[p].die \in {6, 8, 10, 12}
         /\ fr[p].ret = "value"
         /\ KnownClass => fr[p].die = CLASS_DIE_TYPES[toLowerCase(className)]
                          /\ fr[p].diags = 0
         /\ ~KnownClass => fr[p].die = 8 /\ fr[p].diags = 1
    /\ (fr[p].op = "roll" /\ fr[p].ret # "null" /\ fr[p].pc # "idle") =>
         /\ fr[p].die \in {6, 8, 10, 12}
         /\ fr[p].pc # "failed"
         /\ ~KnownClass =>
              /\ fr[p].die = 8
              /\ fr[p].diags >= 1
              /\ fr[p].formula[3] = 8
              /\ fr[p].pc \notin {"rolling", "failed"} =>
                   fr[p].rollTotal \in RollTotals(buildFormula(fr[p].n, 8, conMod))

\* The steps only a Long Rest takes, and the steps only a Full Rest takes.
LongRestSteps ==
  {"fatigued", "doomed", "drained", "wounded", "item", "delete", "update",
   "crafting", "render"}
FullRestSteps == {"stub", "external", "dialog", "replenish"}

Steps(p) == {fr[p].ev[k] : k \in 1..Len(fr[p].ev)}

\* C27: a rest invocation runs the procedure of the one tier chosen, none when
\* the selection is dismissed, and a Short Rest only opens the modal: hit dice,
\* HP, spell slots, conditions and items stay as they were.
C27_OneTierShortRestInert ==
  \A p \in Procs :
    /\ fr[p].op = "dismiss" => fr[p].ev = <<>> /\ Snapshot = fr[p].pre
    /\ fr[p].op = "short" =>
         /\ fr[p].pc = "done"
         /\ fr[p].ev = <<"modal">>
         /\ fr[p].msgs = <<>> /\ fr[p].log = <<>>
         /\ Snapshot = fr[p].pre
         /\ hdFlag = fr[p].pre.flag
    /\ fr[p].op = "long" =>
         Steps(p) \cap (FullRestSteps \cup {"modal"}) = {}
    /\ fr[p].op = "full" =>
         Steps(p) \cap (LongRestSteps \cup {"modal"}) = {}

\* A Short Rest chosen by a wounded character below maximum HP with spent dice.
C27_Witness ==
  /\ fr[1].op = "short" /\ fr[1].pc = "done"
  /\ conds.wounded > 0 /\ hp < hpMax /\ hdFlag = <<0>>

\* A Long Rest and a Full Rest that ran to their end, and a dismissed selection.
C27_WitnessLong == LongRestCompleted(1) /\ "update" \in Steps(1)

C27_WitnessFull == fr[1].op = "full" /\ fr[1].pc = "done" /\ "external" \in Steps(1)

C27_WitnessDismissed == fr[1].op = "dismiss" /\ fr[1].pc = "done" /\ hdFlag = <<0>>

RollFailed(p) == fr[p].op = "roll" /\ fr[p].pc = "failed"

\* C28: a rejected write ends rollAndHeal there and nothing is taken back.
\* When the HP write is rejected, HP and pool are as before and no log entry
\* is emitted; when the HP write succeeds and the hit-dice write is rejected,
\* HP keeps its new value, the pool is as before and no log entry is emitted.
C28_RollAbortsWithoutRollback ==
  \A p \in Procs :
    RollFailed(p) =>
      /\ fr[p].ret = "threw"
      /\ fr[p].log = <<>>
      /\ hdFlag = fr[p].pre.flag
      /\ getCurrentHitDice = fr[p].pre.hd
      /\ \/ fr[p].ev = <<>> /\ hp = fr[p].pre.hp
         \/ /\ fr[p].ev = <<"hp">>
            /\ hp = Math_min(fr[p].pre.hp + Math_max(fr[p].rollTotal, fr[p].n), hpMax)
            /\ hp >= fr[p].pre.hp

\* The HP write went through with an increase and the hit-dice write was
\* rejected.
C28_Witness ==
  /\ RollFailed(1)
  /\ fr[1].ev = <<"hp">>
  /\ hp > fr[1].pre.hp
  /\ getCurrentHitDice = fr[1].pre.hd

\* The HP write was rejected.
C28_WitnessHpRejected ==
  /\ RollFailed(1)
  /\ fr[1].ev = <<>>
  /\ fr[1].pre.hp < hpMax

\* The list of depleted slots names entry e at level l.
ListedDepleted(e, l) == RecordsOf(getDepletedSpellslots, e, l) # {}

\* C29: every slot starts with 0 <= current <= max and keeps it through every
\* restoreSpellslot, rollAndHeal and rest; a level whose max is 0 is never
\* modified and never listed as depleted.
C29_SlotsWithinMax ==
  \A e \in Entries : \A l \in SlotLevels :
    /\ 0 <= slots[e][l].value
    /\ slots[e][l].value <= slots[e][l].max
    /\ slots[e][l].max = InitSlots[e][l].max
    /\ InitSlots[e][l].max = 0 =>
         /\ slots[e][l] = InitSlots[e][l]
         /\ ~ListedDepleted(e, l)

\* A restore of a level of max 0 asked for with enough dice, and refused.
C29_Witness ==
  /\ fr[1].op = "slot" /\ fr[1].pc = "done" /\ fr[1].ret = "false"
  /\ fr[1].entry = "e1" /\ fr[1].n = MaxSlot
  /\ fr[1].current >= hitDiceCost(MaxSlot)
  /\ slots["e1"][MaxSlot] = Slot(0, 0)

\* A slot restored up to its max, and a Long Rest after a restore.
C29_WitnessFilled ==
  /\ SlotSucceeded(1)
  /\ fr[1].entry = "e2"
  /\ slots["e2"][MaxSlot].value = slots["e2"][MaxSlot].max
  /\ ~ListedDepleted("e2", MaxSlot)

C29_WitnessLongRest ==
  /\ LongRestCompleted(1)
  /\ slots # InitSlots

\* The invocation of p spent dice: a roll or a restore that succeeded.
Spent(p) == RollSucceeded(p) \/ SlotSucceeded(p)

\* The dice p's invocation spent, the HP its roll healed before the cap, and
\* the slots it restored at entry e and level l.
DiceSpentBy(p) == IF Spent(p) THEN fr[p].n ELSE 0

HealedBy(p) == IF RollSucceeded(p) THEN fr[p].healing ELSE 0

RestoredBy(p, e, l) ==
  IF SlotSucceeded(p) /\ fr[p].entry = e /\ fr[p].n = l THEN 1 ELSE 0

\* C30: when two spend operations overlap, the outcome is that of running them
\* one after the other: the dice the successful ones spent do not exceed the
\* pool before the first of them, the pool ends lower by exactly those dice,
\* HP ends higher by their healing up to the maximum, and each slot ends
\* higher by the restores that succeeded on it, within its max.
C30_OverlapIsSerial ==
  (\A p \in Procs : fr[p].op \in {"roll", "slot"} /\ Resting(p)) =>
    LET pool0 == Math_max(fr[1].pre.hd, fr[2].pre.hd)
        hp0 == Math_min(fr[1].pre.hp, fr[2].pre.hp)
        dice == DiceSpentBy(1) + DiceSpentBy(2)
    IN  /\ dice <= pool0
        /\ getCurrentHitDice = pool0 - dice
        /\ hp = Math_min(hp0 + HealedBy(1) + HealedBy(2), hpMax)
        /\ \A e \in Entries : \A l \in SlotLevels :
             /\ slots[e][l].value =
                  InitSlots[e][l].value + RestoredBy(1, e, l) + RestoredBy(2, e, l)
             /\ slots[e][l].value <= slots[e][l].max

\* Two overlapping rolls of 2 dice each on a pool of 2 both succeed.
C30_LostUpdate ==
  /\ RollSucceeded(1) /\ RollSucceeded(2)
  /\ fr[1].n = 2 /\ fr[2].n = 2
  /\ fr[1].pre.hd = 2 /\ fr[2].pre.hd = 2
  /\ getCurrentHitDice = 0

\* C31: with a fixed level and one invocation at a time, the dice of the rolls
\* and the levels of the restores that succeeded since the last replenishment
\* sum to at most level + 1, and a spend asked for on a pool of 0 fails and
\* changes nothing.
C31_SpendsWithinPool ==
  /\ spent <= level + 1
  /\ spent + getCurrentHitDice <= level + 1
  /\ \A p \in Procs :
       (fr[p].op \in {"roll", "slot"} /\ fr[p].pre.hd = 0) =>
         /\ Resting(p)
         /\ ~Spent(p)
         /\ fr[p].ret \in {"null", "false", "threw"}
         /\ fr[p].ev = <<>> /\ fr[p].log = <<>>
         /\ Snapshot = fr[p].pre

\* Several spends emptied the pool and a roll of one die is then refused.
C31_Witness ==
  /\ spent = level + 1
  /\ fr[1].op = "roll" /\ fr[1].n = 1 /\ fr[1].ret = "null"
  /\ fr[1].pre.hd = 0
  /\ level = MaxLevel

\* A roll and a restore that together spent the whole pool.
C31_WitnessMixed ==
  /\ SlotSucceeded(1)
  /\ fr[1].n < spent
  /\ spent = level + 1
  /\ hp > 0

\* A restore of a level-1 slot refused on an empty pool.
C31_WitnessRestoreRefused ==
  /\ fr[1].op = "slot" /\ fr[1].ret = "false" /\ fr[1].entry = "e1" /\ fr[1].n = 1
  /\ fr[1].pre.hd = 0
  /\ slots["e1"][1].value < slots["e1"][1].max

\* Spending resumes after a replenishment.
C31_WitnessAfterRest ==
  /\ RollSucceeded(1)
  /\ spent = fr[1].n
  /\ fr[1].pre.flag = <<level + 1>>

\* C32: getCurrentHitDice never returns more than getMaxHitDice, also when the
\* level changed since the count was stored.
C32_ReadWithinMax ==
  /\ getCurrentHitDice <= getMaxHitDice
  /\ \A p \in Procs :
       (fr[p].op = "current" /\ fr[p].pc = "done") => fr[p].current <= fr[p].n

\* The item now at position k had, before p's invocation, a frequency of a
\* period other than a day and still has that frequency's value.
ChargeKept(p, k) ==
  LET before == ItemWithId(fr[p].pre.items, items[k].id)[1]
  IN  (hasFrequency(before) /\ before.frequency[1].per # "day") =>
        items[k].frequency = before.frequency

\* C33: a Long Rest leaves the charge of every item whose frequency is not per
\* day as it was, wands with such a frequency included.
C33_NonDailyChargesKept ==
  \A p \in Procs :
    fr[p].op = "long" => \A k \in 1..Len(items) : ChargeKept(p, k)

\* The Full Rest of p went through the host's procedure, which fired the hook,
\* and both it and the hook's handler have finished.
FullRestWithHookDone(p) ==
  /\ FullRestCompleted(p)
  /\ InSeq("external", fr[p].ev)
  /\ hook.pc = "done"

\* C34: when the host's procedure fires the hook during a Full Rest, however
\* the handler and performFullRest interleave, the pool ends at max and the
\* replenishment is announced exactly once if the pool was below max (not at
\* all if it was full); for an actor that is no character the handler changes
\* nothing.
C34_HookAndFullRest ==
  /\ \A p \in Procs :
       FullRestWithHookDone(p) =>
         /\ getCurrentHitDice = level + 1
         /\ hook.notes + Len(fr[p].notes) =
              (IF fr[p].pre.hd < level + 1 THEN 1 ELSE 0)
  /\ actorType # "character" =>
       /\ hook.wrote = FALSE /\ hook.replenished = 0 /\ hook.notes = 0
       /\ ~InSeq(0, pending)

\* The roll of p has been accepted, and the roll engine has returned its total.
RollAccepted(p) == fr[p].op = "roll" /\ fr[p].ret # "null" /\ fr[p].pc # "idle"

RollReturned(p) == RollAccepted(p) /\ fr[p].pc # "rolling"

\* C35: for n >= 1 dice of type d under modifier c, every total from n + n*c
\* to n*d + n*c, floored at n, lies within the range displayed for n, d and c,
\* the healing a roll computes lies within it, and both of its bounds are the
\* floored value of some total.
C35_RangeCoversHealing ==
  \A p \in Procs :
    /\ ContextShown(p) =>
         LET n == fr[p].n
             r == fr[p].range[1]
             totals == (n + (n * conMod))..((n * getDieType) + (n * conMod))
         IN  /\ \A t \in totals : r.min <= Math_max(t, n) /\ Math_max(t, n) <= r.max
             /\ \E t \in totals : Math_max(t, n) = r.min
             /\ \E t \in totals : Math_max(t, n) = r.max
             /\ totals = RollTotals(fr[p].formula)
    /\ RollReturned(p) =>
         LET r == calculateRange(fr[p].n, getDieType, conMod)
         IN  /\ fr[p].rollTotal >= fr[p].n + (fr[p].n * conMod)
             /\ fr[p].rollTotal <= (fr[p].n * getDieType) + (fr[p].n * conMod)
             /\ r.min <= fr[p].healing /\ fr[p].healing <= r.max

\* A roll of 2 d6 under modifier -1 whose total of 0 is floored to the
\* displayed minimum of 2.
C35_Witness ==
  /\ RollReturned(1)
  /\ fr[1].n = 2 /\ getDieType = 6 /\ conMod = -1
  /\ fr[1].rollTotal = 0
  /\ fr[1].healing = calculateRange(2, 6, -1).min
  /\ fr[1].healing = 2

\* A roll that healed the displayed maximum, and the range shown for it.
C35_WitnessMax ==
  /\ RollReturned(1)
  /\ fr[1].n = 2 /\ getDieType = 8 /\ conMod = 3
  /\ fr[1].healing = 22

C35_WitnessShown ==
  /\ ContextShown(1)
  /\ fr[1].n = 2 /\ getDieType = 8 /\ conMod = 3
  /\ fr[1].range[1] = [min |-> 8, max |-> 22]

====
